---- MODULE Spec2Model ----
(***************************************************************************)
(* Model of the time-loop simulation of HexyWitch/ld47: Game::update      *)
(* (src/src/game.rs) over a level built by create_level                   *)
(* (src/src/level.rs).                                                    *)
(*                                                                         *)
(* Geometry.  Positions are Point2D<f32> in the source.  Here a position  *)
(* is a pair <<x, y>> of integers counted in units of 1/CELL of a tile.   *)
(* One tick of cardinal movement (GHOST_SPEED * TICK_DT of a tile) is     *)
(* STEP units, one tick of diagonal movement is DIAG units on each axis   *)
(* (STEP / sqrt 2, rounded).  The source has 12 cardinal steps to a tile; *)
(* the model takes 2 * HalfCellSteps of them, and a reduced level layout  *)
(* with the same tile alphabet as LEVEL, so that buttons, doors,          *)
(* teleporters, the bulb and the machine are a few ticks from the spawn.  *)
(* Cosmetic state (sprites, animation and bob timers, tint) is left out.  *)
(***************************************************************************)
EXTENDS Integers, Sequences, FiniteSets, TLC

(***************************************************************************)
(* Bounds of the exploration and the scale of the geometry.               *)
(***************************************************************************)
\* frames explored by Spec
MaxFrames == 8
\* frames of Spec that carry input events
MaxInputs == 3
\* cardinal steps in half a tile (6 in the source: 1 / (2 * 5 * 1/60))
HalfCellSteps == 1
\* completed rewinds explored by SpecLoop
MaxLoops == 1
\* frames explored by SpecDeep
DeepFrames == 11
\* width of the one-row grids explored by SpecLevel
LevelWidth == 4
\* frames explored by SpecSwap
SwapFrames == 11
\* SpecBoundary: an input frame may come when tick is within this many ticks
\* of LOOP_TICKS
BoundaryWindow == 1
\* input frames of SpecBoundary after the first one
MaxBoundaryInputs == 1

(***************************************************************************)
(* Program constants.                                                     *)
(***************************************************************************)
\* const LOOP_TICKS: usize = 600
LOOP_TICKS == 600
\* self.tick.saturating_sub(5)
REWIND_STEP == 5
\* dir.normalize() * GHOST_SPEED * TICK_DT, cardinal direction, in units
STEP == 10
\* the same for a diagonal direction, on each axis: STEP / sqrt 2
DIAG == 7
\* self.active_timer = 0.5, in ticks of TICK_DT = 1/60
ACTIVE_TIMER == 30

\* + vec2(0.5, 0.5): half a tile, in units
HALF == HalfCellSteps * STEP
\* one tile, in units
CELL == 2 * HALF

Last(s) == s[Len(s)]

(***************************************************************************)
(* The level: three parallel character grids, rows listed top to bottom   *)
(* as in level.rs.  The layout is a reduced one over the same alphabet.   *)
(***************************************************************************)
LEVEL ==
  << << "#", "#", "#", "#", "#" >>,
     << "#", "#", "B", "-", "#" >>,
     << "#", "O", "S", "T", "#" >>,
     << "#", "M", "B", "T", "#" >>,
     << "#", "#", "#", "#", "#" >> >>

BUTTON_CONNECTIONS ==
  << << "#", "#", "#", "#", "#" >>,
     << "#", "#", "K", "A", "#" >>,
     << "#", " ", " ", "K", "#" >>,
     << "#", " ", "A", "K", "#" >>,
     << "#", "#", "#", "#", "#" >> >>

TELEPORTER_CONNECTIONS ==
  << << "#", "#", "#", "#", "#" >>,
     << "#", "#", " ", " ", "#" >>,
     << "#", " ", " ", "G", "#" >>,
     << "#", " ", " ", "G", "#" >>,
     << "#", "#", "#", "#", "#" >> >>

\* the characters create_level accepts in the tile layout
TileChars == {" ", "#", "S", "B", "|", "-", "T", "O", "M"}

\* LEVEL[LEVEL_HEIGHT - 1 - y_tile].chars().enumerate(): the character of
\* tile (x, y), y counted from the bottom row
CharAt(grid, x, y) == grid[Len(grid) - y][x + 1]

\* every tile of a grid in the order the loops of create_level visit them
\* (rows bottom to top, each left to right; the rows have one width)
ScanCells(grid) ==
  [k \in 1..(Len(grid) * Len(grid[1])) |->
     << (k - 1) % Len(grid[1]), (k - 1) \div Len(grid[1]) >>]

CellsWith(grid, chars) ==
  { c \in { ScanCells(grid)[k] : k \in 1..Len(ScanCells(grid)) } :
      CharAt(grid, c[1], c[2]) \in chars }

\* the label groups of a connection overlay: label -> its tiles in scan order
Groups(overlay) ==
  LET labels == { CharAt(overlay, ScanCells(overlay)[k][1], ScanCells(overlay)[k][2]) :
                    k \in 1..Len(ScanCells(overlay)) } \ {"#", " "}
  IN [ l \in labels |->
         SelectSeq(ScanCells(overlay), LAMBDA c : CharAt(overlay, c[1], c[2]) = l) ]

\* the tiles of a group but the one at index skip
Others(group, skip) ==
  [n \in 1..(Len(group) - 1) |-> IF n < skip THEN group[n] ELSE group[n + 1]]

\* connections.iter().enumerate().find_map(..): index of the first tile of the
\* group that is a button, 0 if there is none
ButtonIndex(group, buttons) ==
  LET hits == { i \in 1..Len(group) : group[i] \in buttons }
  IN IF hits = {} THEN 0 ELSE CHOOSE i \in hits : \A j \in hits : i <= j

\* a construction that takes an unknown tile character for floor
CreateLevelIgnoresUnknownTiles(layout, bconn, tconn) ==
  LET cells      == { ScanCells(layout)[k] : k \in 1..Len(ScanCells(layout)) }
      unknown    == { c \in cells : CharAt(layout, c[1], c[2]) \notin TileChars }
      starts     == CellsWith(layout, {"S"})
      buttons    == CellsWith(layout, {"B"})
      doors      == CellsWith(layout, {"|", "-"})
      teleports  == CellsWith(layout, {"T"})
      bulbs      == CellsWith(layout, {"O"})
      machines   == CellsWith(layout, {"M"})
      bgroups    == Groups(bconn)
      tgroups    == Groups(tconn)
      conns(b)   == LET mine == { l \in DOMAIN bgroups :
                                    /\ ButtonIndex(bgroups[l], buttons) # 0
                                    /\ bgroups[l][ButtonIndex(bgroups[l], buttons)] = b }
                    IN IF mine = {} THEN << >>
                       ELSE LET l == CHOOSE l \in mine : TRUE
                            IN Others(bgroups[l], ButtonIndex(bgroups[l], buttons))
      pairOf(t)  == LET mine == { l \in DOMAIN tgroups :
                                    \E i \in 1..2 : tgroups[l][i] = t }
                    IN IF mine = {} THEN << >>
                       ELSE LET g == tgroups[CHOOSE l \in mine : TRUE]
                            IN IF g[1] = t THEN << g[2] >> ELSE << g[1] >>
      lastOf(S)  == CHOOSE c \in S : \A d \in S :
                      d[2] < c[2] \/ (d[2] = c[2] /\ d[1] <= c[1])
  IN IF \/ FALSE
        \/ \E l \in DOMAIN tgroups : Len(tgroups[l]) # 2
        \/ \E l \in DOMAIN tgroups : \E i \in 1..2 : tgroups[l][i] \notin teleports
        \/ machines = {}
     THEN [ ok |-> FALSE ]
     ELSE [ ok           |-> TRUE,
            layout       |-> layout,
            player_start |-> IF starts = {} THEN << 0, 0 >>
                             ELSE << lastOf(starts)[1] * CELL + HALF,
                                     lastOf(starts)[2] * CELL + HALF >>,
            buttons      |-> [ b \in buttons |-> conns(b) ],
            doors        |-> doors,
            teleporters  |-> [ t \in teleports |-> pairOf(t) ],
            bulbs        |-> bulbs,
            the_machine  |-> lastOf(machines) ]

\* a construction that connects only the first teleporter of a pair
CreateLevelOneWayPairs(layout, bconn, tconn) ==
  LET cells      == { ScanCells(layout)[k] : k \in 1..Len(ScanCells(layout)) }
      unknown    == { c \in cells : CharAt(layout, c[1], c[2]) \notin TileChars }
      starts     == CellsWith(layout, {"S"})
      buttons    == CellsWith(layout, {"B"})
      doors      == CellsWith(layout, {"|", "-"})
      teleports  == CellsWith(layout, {"T"})
      bulbs      == CellsWith(layout, {"O"})
      machines   == CellsWith(layout, {"M"})
      bgroups    == Groups(bconn)
      tgroups    == Groups(tconn)
      conns(b)   == LET mine == { l \in DOMAIN bgroups :
                                    /\ ButtonIndex(bgroups[l], buttons) # 0
                                    /\ bgroups[l][ButtonIndex(bgroups[l], buttons)] = b }
                    IN IF mine = {} THEN << >>
                       ELSE LET l == CHOOSE l \in mine : TRUE
                            IN Others(bgroups[l], ButtonIndex(bgroups[l], buttons))
      pairOf(t)  == LET mine == { l \in DOMAIN tgroups :
                                    \E i \in 1..2 : tgroups[l][i] = t }
                    IN IF mine = {} THEN << >>
                       ELSE LET g == tgroups[CHOOSE l \in mine : TRUE]
                            IN IF g[1] = t THEN << g[2] >> ELSE << >>
      lastOf(S)  == CHOOSE c \in S : \A d \in S :
                      d[2] < c[2] \/ (d[2] = c[2] /\ d[1] <= c[1])
  IN IF \/ unknown # {}
        \/ \E l \in DOMAIN tgroups : Len(tgroups[l]) # 2
        \/ \E l \in DOMAIN tgroups : \E i \in 1..2 : tgroups[l][i] \notin teleports
        \/ machines = {}
     THEN [ ok |-> FALSE ]
     ELSE [ ok           |-> TRUE,
            layout       |-> layout,
            player_start |-> IF starts = {} THEN << 0, 0 >>
                             ELSE << lastOf(starts)[1] * CELL + HALF,
                                     lastOf(starts)[2] * CELL + HALF >>,
            buttons      |-> [ b \in buttons |-> conns(b) ],
            doors        |-> doors,
            teleporters  |-> [ t \in teleports |-> pairOf(t) ],
            bulbs        |-> bulbs,
            the_machine  |-> lastOf(machines) ]

\* create_level: the Level; ok is FALSE where the source panics
CreateLevel(layout, bconn, tconn) ==
  LET cells      == { ScanCells(layout)[k] : k \in 1..Len(ScanCells(layout)) }
      unknown    == { c \in cells : CharAt(layout, c[1], c[2]) \notin TileChars }
      starts     == CellsWith(layout, {"S"})
      buttons    == CellsWith(layout, {"B"})
      doors      == CellsWith(layout, {"|", "-"})
      teleports  == CellsWith(layout, {"T"})
      bulbs      == CellsWith(layout, {"O"})
      machines   == CellsWith(layout, {"M"})
      bgroups    == Groups(bconn)
      tgroups    == Groups(tconn)
      conns(b)   == LET mine == { l \in DOMAIN bgroups :
                                    /\ ButtonIndex(bgroups[l], buttons) # 0
                                    /\ bgroups[l][ButtonIndex(bgroups[l], buttons)] = b }
                    IN IF mine = {} THEN << >>
                       ELSE LET l == CHOOSE l \in mine : TRUE
                            IN Others(bgroups[l], ButtonIndex(bgroups[l], buttons))
      pairOf(t)  == LET mine == { l \in DOMAIN tgroups :
                                    \E i \in 1..2 : tgroups[l][i] = t }
                    IN IF mine = {} THEN << >>
                       ELSE LET g == tgroups[CHOOSE l \in mine : TRUE]
                            IN IF g[1] = t THEN << g[2] >> ELSE << g[1] >>
      lastOf(S)  == CHOOSE c \in S : \A d \in S :
                      d[2] < c[2] \/ (d[2] = c[2] /\ d[1] <= c[1])
  IN IF \/ unknown # {}
        \/ \E l \in DOMAIN tgroups : Len(tgroups[l]) # 2
        \/ \E l \in DOMAIN tgroups : \E i \in 1..2 : tgroups[l][i] \notin teleports
        \/ machines = {}
     THEN [ ok |-> FALSE ]
     ELSE [ ok           |-> TRUE,
            layout       |-> layout,
            player_start |-> IF starts = {} THEN << 0, 0 >>
                             ELSE << lastOf(starts)[1] * CELL + HALF,
                                     lastOf(starts)[2] * CELL + HALF >>,
            buttons      |-> [ b \in buttons |-> conns(b) ],
            doors        |-> doors,
            teleporters  |-> [ t \in teleports |-> pairOf(t) ],
            bulbs        |-> bulbs,
            the_machine  |-> lastOf(machines) ]

(***************************************************************************)
(* The state of Game (game.rs 17-37).                                     *)
(***************************************************************************)
VARIABLES
  level,           \* Game.level, built once by create_level
  tick,            \* Game.tick
  rewind,          \* Game.rewind
  clear_players,   \* Game.clear_players
  paused,          \* Game.paused
  controls,        \* Game.controls, the held direction keys
  players,         \* Game.players, the recording agent is the last one
  buttons,         \* Game.buttons in the iteration order of the map
  doors,           \* Game.doors: door tile -> open
  teleporters,     \* Game.teleporters: teleporter tile -> active_timer in ticks
  bulbs,           \* Game.bulbs
  slots_occupied,  \* Game.the_machine.slots_occupied
  panicked,        \* the process has aborted on a panic
  obs,             \* history: what the last frame did
  hist,            \* history: per agent, the trajectory of its recording pass
  stats            \* history: counters of frames, inputs and loop phases

vars == << level, tick, rewind, clear_players, paused, controls, players, buttons,
           doors, teleporters, bulbs, slots_occupied, panicked, obs, hist, stats >>

\* the game as one record, for the operators below
Game == [ level |-> level, tick |-> tick, rewind |-> rewind, clear_players |-> clear_players,
          paused |-> paused, controls |-> controls, players |-> players,
          buttons |-> buttons, doors |-> doors, teleporters |-> teleporters,
          bulbs |-> bulbs, slots_occupied |-> slots_occupied ]


\* Level::tile: "Wall" for x <= 0, y <= 0 and outside the grid
LevelTile(x, y) ==
  IF x > 0 /\ y > 0
  THEN IF y < Len(level.layout) /\ x < Len(level.layout[Len(level.layout) - y])
       THEN (IF CharAt(level.layout, x, y) = "#" THEN "Wall" ELSE "Floor")
       ELSE "Wall"
  ELSE "Wall"

\* x.floor() as i32, y.floor() as i32: the tile of a position
Floor(u) == IF u >= 0 THEN u \div CELL ELSE -((-u + CELL - 1) \div CELL)
TileOf(p) == << Floor(p[1]), Floor(p[2]) >>

(***************************************************************************)
(* Ghost (game.rs 517-633): a recorded agent.                             *)
(***************************************************************************)
NoControls == [up |-> FALSE, left |-> FALSE, down |-> FALSE, right |-> FALSE]

\* an agent created without its spawn position
GhostNewNoPosition(position) == [controls |-> << >>, positions |-> << >>]

\* Ghost::new
GhostNew(position) == [controls |-> << >>, positions |-> << position >>]

\* Ghost::teleport: overwrites the last entry of positions
GhostTeleport(g, destination) ==
  [g EXCEPT !.positions = [g.positions EXCEPT ![Len(g.positions)] = destination]]

\* a reset that keeps the current pose instead of the given one
GhostResetKeepsPose(g, position) == [g EXCEPT !.positions = << Last(g.positions) >>]

\* a reset that also empties the controls log
GhostResetClearsControls(g, position) == [controls |-> << >>, positions |-> << position >>]

\* Ghost::reset
GhostReset(g, position) == [g EXCEPT !.positions = << position >>]

\* Ghost::push_controls
GhostPushControls(g, c) == [g EXCEPT !.controls = Append(g.controls, c)]

\* a position that falls back to the first entry instead of the last
GhostPositionFallsBackToFirst(g, t) ==
  IF t + 2 <= Len(g.positions) THEN g.positions[t + 2] ELSE g.positions[1]

\* Ghost::position: positions.get(tick + 1), or the last entry
GhostPosition(g, t) ==
  IF t + 2 <= Len(g.positions) THEN g.positions[t + 2] ELSE Last(g.positions)

\* the direction vector Ghost::update builds from the four flags
Dir(c) == << (IF c.right THEN 1 ELSE 0) - (IF c.left THEN 1 ELSE 0),
             (IF c.up THEN 1 ELSE 0) - (IF c.down THEN 1 ELSE 0) >>

\* dir.normalize() * GHOST_SPEED * TICK_DT
Displacement(c) ==
  IF Dir(c)[1] # 0 /\ Dir(c)[2] # 0
  THEN << Dir(c)[1] * DIAG, Dir(c)[2] * DIAG >>
  ELSE << Dir(c)[1] * STEP, Dir(c)[2] * STEP >>

\* new_pos of Ghost::update for the controls c
Candidate(g, c) ==
  << Last(g.positions)[1] + Displacement(c)[1],
     Last(g.positions)[2] + Displacement(c)[2] >>

\* the two collision tests of Ghost::update; ds maps a door tile to its open flag
Colliding(tile, ds) ==
  \/ LevelTile(tile[1], tile[2]) = "Wall"
  \/ (tile \in DOMAIN ds /\ ~ds[tile])

\* an update that tests the doors only
GhostUpdateIgnoresWalls(g, t, ds) ==
  IF t < Len(g.controls)
  THEN LET c == g.controls[t + 1]
       IN IF Dir(c) # << 0, 0 >>
          THEN IF ~(TileOf(Candidate(g, c)) \in DOMAIN ds /\ ~ds[TileOf(Candidate(g, c))])
               THEN [g EXCEPT !.positions = Append(g.positions, Candidate(g, c))]
               ELSE [g EXCEPT !.positions = Append(g.positions, Last(g.positions))]
          ELSE [g EXCEPT !.positions = Append(g.positions, Last(g.positions))]
  ELSE g

\* an update that tests the walls only
GhostUpdateIgnoresDoors(g, t, ds) ==
  IF t < Len(g.controls)
  THEN LET c == g.controls[t + 1]
       IN IF Dir(c) # << 0, 0 >>
             /\ LevelTile(TileOf(Candidate(g, c))[1], TileOf(Candidate(g, c))[2]) # "Wall"
          THEN [g EXCEPT !.positions = Append(g.positions, Candidate(g, c))]
          ELSE [g EXCEPT !.positions = Append(g.positions, Last(g.positions))]
  ELSE g

\* an update that appends nothing when the agent collides
GhostUpdateNoPushOnCollision(g, t, ds) ==
  IF t < Len(g.controls)
  THEN LET c == g.controls[t + 1]
       IN IF Dir(c) # << 0, 0 >>
          THEN IF ~Colliding(TileOf(Candidate(g, c)), ds)
               THEN [g EXCEPT !.positions = Append(g.positions, Candidate(g, c))]
               ELSE g
          ELSE [g EXCEPT !.positions = Append(g.positions, Last(g.positions))]
  ELSE g

\* an update that repeats the last pose when the log has no entry for the tick
GhostUpdateHoldAppends(g, t, ds) ==
  IF t < Len(g.controls)
  THEN LET c == g.controls[t + 1]
       IN IF Dir(c) # << 0, 0 >>
          THEN IF ~Colliding(TileOf(Candidate(g, c)), ds)
               THEN [g EXCEPT !.positions = Append(g.positions, Candidate(g, c))]
               ELSE [g EXCEPT !.positions = Append(g.positions, Last(g.positions))]
          ELSE [g EXCEPT !.positions = Append(g.positions, Last(g.positions))]
  ELSE [g EXCEPT !.positions = Append(g.positions, Last(g.positions))]

\* Ghost::update
GhostUpdate(g, t, ds) ==
  IF t < Len(g.controls)
  THEN LET c == g.controls[t + 1]
       IN IF Dir(c) # << 0, 0 >>
          THEN IF ~Colliding(TileOf(Candidate(g, c)), ds)
               THEN [g EXCEPT !.positions = Append(g.positions, Candidate(g, c))]
               ELSE [g EXCEPT !.positions = Append(g.positions, Last(g.positions))]
          ELSE [g EXCEPT !.positions = Append(g.positions, Last(g.positions))]
  ELSE g

\* Bulb::new
BulbNew(position) == [positions |-> << position >>, picked_up |-> << >>, inserted |-> FALSE]

\* the_machine.position = level.the_machine.to_f32()
MachinePosition == << level.the_machine[1] * CELL, level.the_machine[2] * CELL >>

\* the orders in which a map or set of the given tiles can be iterated
Orders(S) == { q \in [1..Cardinality(S) -> S] : \A c \in S : \E k \in DOMAIN q : q[k] = c }

(***************************************************************************)
(* Input events (game.rs 292-336).                                        *)
(***************************************************************************)
KeyDown(k) == [down |-> TRUE, key |-> k]
KeyUp(k) == [down |-> FALSE, key |-> k]

\* an Escape that leaves the rewind in progress
HandleInputEscapeKeepsRewind(g, ev) ==
  IF ev.key = "W" THEN [g EXCEPT !.controls.up = ev.down]
  ELSE IF ev.key = "A" THEN [g EXCEPT !.controls.left = ev.down]
  ELSE IF ev.key = "S" THEN [g EXCEPT !.controls.down = ev.down]
  ELSE IF ev.key = "D" THEN [g EXCEPT !.controls.right = ev.down]
  ELSE IF ev.key = "Escape" /\ ev.down
       THEN [g EXCEPT !.players = << GhostNew(level.player_start) >>, !.tick = 0]
  ELSE IF ev.key = "Space" /\ ev.down THEN [g EXCEPT !.rewind = TRUE]
  ELSE IF ev.key = "R" /\ ev.down
       THEN [g EXCEPT !.rewind = TRUE, !.clear_players = TRUE]
  ELSE g

\* one arm of the match over the input events
HandleInput(g, ev) ==
  IF ev.key = "W" THEN [g EXCEPT !.controls.up = ev.down]
  ELSE IF ev.key = "A" THEN [g EXCEPT !.controls.left = ev.down]
  ELSE IF ev.key = "S" THEN [g EXCEPT !.controls.down = ev.down]
  ELSE IF ev.key = "D" THEN [g EXCEPT !.controls.right = ev.down]
  ELSE IF ev.key = "Escape" /\ ev.down
       THEN [g EXCEPT !.rewind = FALSE,
                      !.players = << GhostNew(level.player_start) >>,
                      !.tick = 0]
  ELSE IF ev.key = "Space" /\ ev.down THEN [g EXCEPT !.rewind = TRUE]
  ELSE IF ev.key = "R" /\ ev.down
       THEN [g EXCEPT !.rewind = TRUE, !.clear_players = TRUE]
  ELSE g

\* for input in inputs { ... }
RECURSIVE HandleInputs(_, _)
HandleInputs(g, evs) ==
  IF evs = << >> THEN g ELSE HandleInputs(HandleInput(g, Head(evs)), Tail(evs))

\* if any direction is held { self.paused = false }
Unpause(g) ==
  IF g.controls.down \/ g.controls.up \/ g.controls.left \/ g.controls.right
  THEN [g EXCEPT !.paused = FALSE] ELSE g

(***************************************************************************)
(* The clock step of a frame (game.rs 343-393).  Each operator returns    *)
(* the game after the step and the kind of step taken.                    *)
(***************************************************************************)
\* Bulb::reset
BulbReset(b) == [b EXCEPT !.positions = << b.positions[1] >>, !.picked_up = << >>]

\* self.tick.saturating_sub(5)
SaturatingSub(t, n) == IF t >= n THEN t - n ELSE 0

\* a rewind that steps the clock below zero
RewindClockUnclamped(t) == t - REWIND_STEP

\* a rewind that stops where a whole step no longer fits
RewindClockStopsShort(t) == IF t >= REWIND_STEP THEN t - REWIND_STEP ELSE t

\* the clock of a Rewinding frame
RewindClock(t) == SaturatingSub(t, REWIND_STEP)

\* a hard reset that leaves the flag set
HardResetKeepsFlag(g) == [g EXCEPT !.players = << GhostNew(level.player_start) >>]

\* a hard reset that keeps the echoes and clears only the flag
HardResetKeepsRoster(g) == [g EXCEPT !.clear_players = FALSE]

\* the clear_players arm: the roster becomes one fresh agent
HardReset(g) ==
  [g EXCEPT !.players = << GhostNew(level.player_start) >>, !.clear_players = FALSE]

\* an archive that forgets to push the fresh agent
ArchiveNoPush(g) ==
  [g EXCEPT !.players =
     [i \in DOMAIN g.players |-> GhostReset(g.players[i], level.player_start)]]

\* the else arm: every agent is reset, a fresh agent is pushed
Archive(g) ==
  [g EXCEPT !.players =
     Append([i \in DOMAIN g.players |-> GhostReset(g.players[i], level.player_start)],
            GhostNew(level.player_start))]

\* a rewind whose reset puts every bulb of the level back into the list
RewindStepRespawnsBulbs(g) ==
  LET t == RewindClock(g.tick)
      g1 == [g EXCEPT !.tick = t]
      q == CHOOSE q \in Orders(level.bulbs) : TRUE
  IN IF t = 0
     THEN LET g2 == [g1 EXCEPT !.rewind = FALSE]
              g3 == IF g2.clear_players THEN HardReset(g2) ELSE Archive(g2)
          IN [ game |-> [g3 EXCEPT !.bulbs =
                           [k \in DOMAIN q |->
                              BulbNew(<< q[k][1] * CELL + HALF, q[k][2] * CELL + HALF >>)]],
               kind |-> IF g2.clear_players THEN "hard" ELSE "archive",
               pre  |-> g.players ]
     ELSE [ game |-> g1, kind |-> "rewind", pre |-> g.players ]

\* if self.rewind { ... }
RewindStep(g) ==
  LET t == RewindClock(g.tick)
      g1 == [g EXCEPT !.tick = t]
  IN IF t = 0
     THEN LET g2 == [g1 EXCEPT !.rewind = FALSE]
              g3 == IF g2.clear_players THEN HardReset(g2) ELSE Archive(g2)
          IN [ game |-> [g3 EXCEPT !.bulbs = [k \in DOMAIN g3.bulbs |-> BulbReset(g3.bulbs[k])]],
               kind |-> IF g2.clear_players THEN "hard" ELSE "archive",
               pre  |-> g.players ]
     ELSE [ game |-> g1, kind |-> "rewind", pre |-> g.players ]

\* a forward step that records no control state
ForwardStepNoPush(g) ==
  LET moved == [i \in DOMAIN g.players |-> GhostUpdate(g.players[i], g.tick, g.doors)]
      t     == g.tick + 1
  IN [ game |-> [g EXCEPT !.players = moved, !.tick = t,
                          !.rewind = IF t >= LOOP_TICKS THEN TRUE ELSE g.rewind],
       kind |-> "forward",
       pre  |-> g.players ]

\* a forward step that starts the rewind one tick late
ForwardStepLateRewind(g) ==
  LET pushed == [g.players EXCEPT ![Len(g.players)] = GhostPushControls(@, g.controls)]
      moved  == [i \in DOMAIN pushed |-> GhostUpdate(pushed[i], g.tick, g.doors)]
      t      == g.tick + 1
  IN [ game |-> [g EXCEPT !.players = moved, !.tick = t,
                          !.rewind = IF t > LOOP_TICKS THEN TRUE ELSE g.rewind],
       kind |-> "forward",
       pre  |-> pushed ]

\* else if !self.paused { ... }
\* a forward step that never starts the rewind by itself
ForwardStepNeverRewinds(g) ==
  LET pushed == [g.players EXCEPT ![Len(g.players)] = GhostPushControls(@, g.controls)]
      moved  == [i \in DOMAIN pushed |-> GhostUpdate(pushed[i], g.tick, g.doors)]
      t      == g.tick + 1
  IN [ game |-> [g EXCEPT !.players = moved, !.tick = t],
       kind |-> "forward",
       pre  |-> pushed ]

ForwardStep(g) ==
  LET pushed == [g.players EXCEPT ![Len(g.players)] = GhostPushControls(@, g.controls)]
      moved  == [i \in DOMAIN pushed |-> GhostUpdate(pushed[i], g.tick, g.doors)]
      t      == g.tick + 1
  IN [ game |-> [g EXCEPT !.players = moved, !.tick = t,
                          !.rewind = IF t >= LOOP_TICKS THEN TRUE ELSE g.rewind],
       kind |-> "forward",
       pre  |-> pushed ]

\* game.rs 343-393
ClockStep(g) ==
  IF g.rewind THEN RewindStep(g)
  ELSE IF ~g.paused THEN ForwardStep(g)
  ELSE [ game |-> g, kind |-> "paused", pre |-> g.players ]

(***************************************************************************)
(* Object resolution, run at the end of every frame (game.rs 395-431).    *)
(* Agents are numbered from 1 here; index i is index i - 1 of the source. *)
(***************************************************************************)
\* players_spatial: tile -> the indices of the agents in it, ascending
Spatial(ps, t) ==
  LET tileOf(i) == TileOf(GhostPosition(ps[i], t))
  IN [ c \in { tileOf(i) : i \in DOMAIN ps } |->
         SelectSeq([i \in DOMAIN ps |-> i], LAMBDA i : tileOf(i) = c) ]

\* destination.to_f32() + vec2(0.5, 0.5)
TeleportTarget(t) ==
  << level.teleporters[t][1][1] * CELL + HALF, level.teleporters[t][1][2] * CELL + HALF >>

\* an activation that moves the agents standing on the paired tile
TeleporterActivatePaired(w, t, sp) ==
  LET there == level.teleporters[t][1]
      moved == IF there \in DOMAIN sp THEN { sp[there][k] : k \in DOMAIN sp[there] } ELSE {}
  IN [w EXCEPT !.teleporters[t] = ACTIVE_TIMER,
               !.players = [i \in DOMAIN w.players |->
                              IF i \in moved
                              THEN GhostTeleport(w.players[i], TeleportTarget(t))
                              ELSE w.players[i]]]

\* an activation that moves the agents that stand on the tile when it runs
TeleporterActivateLive(w, t, sp) ==
  LET moved == { i \in DOMAIN w.players : TileOf(Last(w.players[i].positions)) = t }
  IN [w EXCEPT !.teleporters[t] = ACTIVE_TIMER,
               !.players = [i \in DOMAIN w.players |->
                              IF i \in moved
                              THEN GhostTeleport(w.players[i], TeleportTarget(t))
                              ELSE w.players[i]]]

\* Teleporter::activate
TeleporterActivate(w, t, sp) ==
  LET moved == IF t \in DOMAIN sp THEN { sp[t][k] : k \in DOMAIN sp[t] } ELSE {}
  IN [w EXCEPT !.teleporters[t] = ACTIVE_TIMER,
               !.players = [i \in DOMAIN w.players |->
                              IF i \in moved
                              THEN GhostTeleport(w.players[i], TeleportTarget(t))
                              ELSE w.players[i]]]

\* a button whose teleporters fire on every occupied frame
ButtonUpdateLevelTriggered(w, k, sp) ==
  LET b == w.buttons[k]
      RECURSIVE Press(_, _)
      Press(v, n) ==
        IF n > Len(b.connections) THEN v
        ELSE LET c  == b.connections[n]
                 v1 == IF c \in DOMAIN v.doors THEN [v EXCEPT !.doors[c] = TRUE] ELSE v
                 v2 == IF c \in DOMAIN v1.teleporters
                       THEN TeleporterActivate(v1, c, sp) ELSE v1
             IN Press(v2, n + 1)
      RECURSIVE Release(_, _)
      Release(v, n) ==
        IF n > Len(b.connections) THEN v
        ELSE LET c == b.connections[n]
             IN Release(IF c \in DOMAIN v.doors THEN [v EXCEPT !.doors[c] = FALSE] ELSE v,
                        n + 1)
  IN IF b.position \in DOMAIN sp
     THEN [Press(w, 1) EXCEPT !.buttons[k].active = TRUE]
     ELSE Release([w EXCEPT !.buttons[k].active = FALSE], 1)

\* a button that leaves its doors open when it is released
ButtonUpdateKeepsDoorOpen(w, k, sp) ==
  LET b == w.buttons[k]
      RECURSIVE Press(_, _)
      Press(v, n) ==
        IF n > Len(b.connections) THEN v
        ELSE LET c  == b.connections[n]
                 v1 == IF c \in DOMAIN v.doors THEN [v EXCEPT !.doors[c] = TRUE] ELSE v
                 v2 == IF ~b.active /\ c \in DOMAIN v1.teleporters
                       THEN TeleporterActivate(v1, c, sp) ELSE v1
             IN Press(v2, n + 1)
  IN IF b.position \in DOMAIN sp
     THEN [Press(w, 1) EXCEPT !.buttons[k].active = TRUE]
     ELSE [w EXCEPT !.buttons[k].active = FALSE]

\* a button that closes every door when it is released
ButtonUpdateClosesAllDoors(w, k, sp) ==
  LET b == w.buttons[k]
      RECURSIVE Press(_, _)
      Press(v, n) ==
        IF n > Len(b.connections) THEN v
        ELSE LET c  == b.connections[n]
                 v1 == IF c \in DOMAIN v.doors THEN [v EXCEPT !.doors[c] = TRUE] ELSE v
                 v2 == IF ~b.active /\ c \in DOMAIN v1.teleporters
                       THEN TeleporterActivate(v1, c, sp) ELSE v1
             IN Press(v2, n + 1)
  IN IF b.position \in DOMAIN sp
     THEN [Press(w, 1) EXCEPT !.buttons[k].active = TRUE]
     ELSE [w EXCEPT !.buttons[k].active = FALSE,
                    !.doors = [d \in DOMAIN w.doors |-> FALSE]]

\* Button::update of the k-th button
ButtonUpdate(w, k, sp) ==
  LET b == w.buttons[k]
      RECURSIVE Press(_, _)
      Press(v, n) ==
        IF n > Len(b.connections) THEN v
        ELSE LET c  == b.connections[n]
                 v1 == IF c \in DOMAIN v.doors THEN [v EXCEPT !.doors[c] = TRUE] ELSE v
                 v2 == IF ~b.active /\ c \in DOMAIN v1.teleporters
                       THEN TeleporterActivate(v1, c, sp) ELSE v1
             IN Press(v2, n + 1)
      RECURSIVE Release(_, _)
      Release(v, n) ==
        IF n > Len(b.connections) THEN v
        ELSE LET c == b.connections[n]
             IN Release(IF c \in DOMAIN v.doors THEN [v EXCEPT !.doors[c] = FALSE] ELSE v,
                        n + 1)
  IN IF b.position \in DOMAIN sp
     THEN [Press(w, 1) EXCEPT !.buttons[k].active = TRUE]
     ELSE Release([w EXCEPT !.buttons[k].active = FALSE], 1)

\* for button in self.buttons.values_mut() { button.update(..) }
RECURSIVE ButtonsUpdate(_, _, _)
ButtonsUpdate(w, k, sp) ==
  IF k > Len(w.buttons) THEN w ELSE ButtonsUpdate(ButtonUpdate(w, k, sp), k + 1, sp)

\* Teleporter::update: the timer decays by one tick, clamped at 0
TeleporterUpdate(timer) == IF timer > 0 THEN timer - 1 ELSE 0

\* Bulb::position
BulbPosition(b, t) ==
  IF t + 2 <= Len(b.positions) THEN b.positions[t + 2] ELSE Last(b.positions)

\* (a - b).length() squared, in units
Dist2(a, b) == (a[1] - b[1]) * (a[1] - b[1]) + (a[2] - b[2]) * (a[2] - b[2])

\* a scan that leaves out the bulb's own tile
NearOffsetsWithoutOwnCell == << << -1, -1 >>, << -1, 0 >>, << 0, -1 >> >>

\* the offsets of for x in -1..1 and for y in -1..1 (the end is excluded)
NearOffsets == << << -1, -1 >>, << -1, 0 >>, << 0, -1 >>, << 0, 0 >> >>

\* near_players before the sort: the agents of the scanned tiles
NearPlayers(tile, sp) ==
  LET RECURSIVE Go(_)
      Go(n) == IF n > Len(NearOffsets) THEN << >>
               ELSE LET c == << tile[1] + NearOffsets[n][1], tile[2] + NearOffsets[n][2] >>
                    IN (IF c \in DOMAIN sp THEN sp[c] ELSE << >>) \o Go(n + 1)
  IN Go(1)

\* near_players.sort_by(distance).first(): the stable sort keeps the first
\* of the nearest agents; 0 if the list is empty
Nearest(b, t, near, ps) ==
  IF near = << >> THEN 0
  ELSE LET d(n) == Dist2(BulbPosition(b, t), GhostPosition(ps[near[n]], t))
           best == CHOOSE n \in DOMAIN near :
                     \A m \in DOMAIN near : d(n) < d(m) \/ (d(n) = d(m) /\ n <= m)
       IN near[best]

\* Bulb::update indexes players out of bounds
BulbPanics(b, ps) == b.picked_up # << >> /\ b.picked_up[1][2] > Len(ps)

\* an update that tests the delivery against the pickup radius
BulbUpdatePickupRadius(b, t, sp, ps) ==
  LET Carried(b1) ==
        IF 4 * Dist2(MachinePosition, BulbPosition(b1, t)) < CELL * CELL
        THEN [b1 EXCEPT !.inserted = TRUE] ELSE b1
      PickUp(b1, who) ==
        IF who # 0
           /\ 4 * Dist2(BulbPosition(b1, t), GhostPosition(ps[who], t)) < CELL * CELL
        THEN [b1 EXCEPT !.picked_up = << << t, who >> >>] ELSE b1
      Free(b1) == PickUp(b1, Nearest(b1, t, NearPlayers(TileOf(BulbPosition(b1, t)), sp), ps))
  IN IF b.picked_up # << >>
     THEN Carried([b EXCEPT !.positions =
                     Append(b.positions, GhostPosition(ps[b.picked_up[1][2]], t))])
     ELSE Free([b EXCEPT !.positions = Append(b.positions, BulbPosition(b, t))])

\* an update that lets a carried bulb be picked up again
BulbUpdateRepicks(b, t, sp, ps) ==
  LET Carried(b1) ==
        IF Dist2(MachinePosition, BulbPosition(b1, t)) < CELL * CELL
        THEN [b1 EXCEPT !.inserted = TRUE] ELSE b1
      PickUp(b1, who) ==
        IF who # 0
           /\ 4 * Dist2(BulbPosition(b1, t), GhostPosition(ps[who], t)) < CELL * CELL
        THEN [b1 EXCEPT !.picked_up = << << t, who >> >>] ELSE b1
      Free(b1) == PickUp(b1, Nearest(b1, t, NearPlayers(TileOf(BulbPosition(b1, t)), sp), ps))
  IN IF b.picked_up # << >>
     THEN Free(Carried([b EXCEPT !.positions =
                          Append(b.positions, GhostPosition(ps[b.picked_up[1][2]], t))]))
     ELSE Free([b EXCEPT !.positions = Append(b.positions, BulbPosition(b, t))])

\* Bulb::update
BulbUpdate(b, t, sp, ps) ==
  LET Carried(b1) ==
        IF Dist2(MachinePosition, BulbPosition(b1, t)) < CELL * CELL
        THEN [b1 EXCEPT !.inserted = TRUE] ELSE b1
      PickUp(b1, who) ==
        IF who # 0
           /\ 4 * Dist2(BulbPosition(b1, t), GhostPosition(ps[who], t)) < CELL * CELL
        THEN [b1 EXCEPT !.picked_up = << << t, who >> >>] ELSE b1
      Free(b1) == PickUp(b1, Nearest(b1, t, NearPlayers(TileOf(BulbPosition(b1, t)), sp), ps))
  IN IF b.picked_up # << >>
     THEN Carried([b EXCEPT !.positions =
                     Append(b.positions, GhostPosition(ps[b.picked_up[1][2]], t))])
     ELSE Free([b EXCEPT !.positions = Append(b.positions, BulbPosition(b, t))])

\* a resolution whose delivery starts a rewind without the hard-reset flag
ResolveDeliveryKeepsFlag(g) ==
  LET Machine(w, upd, ins) ==
        [g EXCEPT !.players = w.players, !.doors = w.doors, !.buttons = w.buttons,
                  !.teleporters = [t \in DOMAIN w.teleporters |->
                                     TeleporterUpdate(w.teleporters[t])],
                  !.bulbs = SelectSeq(upd, LAMBDA b : ~b.inserted),
                  !.slots_occupied = g.slots_occupied + Cardinality(ins),
                  !.rewind = IF ins # {} THEN TRUE ELSE g.rewind]
      Inserted(w, upd) == Machine(w, upd, { k \in DOMAIN upd : upd[k].inserted })
      Bulbs(sp, w) ==
        Inserted(w, [k \in DOMAIN g.bulbs |-> BulbUpdate(g.bulbs[k], g.tick, sp, w.players)])
      Buttons(sp) ==
        Bulbs(sp, ButtonsUpdate([players |-> g.players, doors |-> g.doors,
                                 teleporters |-> g.teleporters, buttons |-> g.buttons],
                                1, sp))
  IN Buttons(Spatial(g.players, g.tick))

\* a resolution that removes a delivered bulb without counting it
ResolveNoAddBulb(g) ==
  LET Machine(w, upd, ins) ==
        [g EXCEPT !.players = w.players, !.doors = w.doors, !.buttons = w.buttons,
                  !.teleporters = [t \in DOMAIN w.teleporters |->
                                     TeleporterUpdate(w.teleporters[t])],
                  !.bulbs = SelectSeq(upd, LAMBDA b : ~b.inserted),
                  !.rewind = IF ins # {} THEN TRUE ELSE g.rewind,
                  !.clear_players = IF ins # {} THEN TRUE ELSE g.clear_players]
      Inserted(w, upd) == Machine(w, upd, { k \in DOMAIN upd : upd[k].inserted })
      Bulbs(sp, w) ==
        Inserted(w, [k \in DOMAIN g.bulbs |-> BulbUpdate(g.bulbs[k], g.tick, sp, w.players)])
      Buttons(sp) ==
        Bulbs(sp, ButtonsUpdate([players |-> g.players, doors |-> g.doors,
                                 teleporters |-> g.teleporters, buttons |-> g.buttons],
                                1, sp))
  IN Buttons(Spatial(g.players, g.tick))

\* game.rs 395-431; the caller has excluded the panic of Bulb::update
Resolve(g) ==
  LET Machine(w, upd, ins) ==
        [g EXCEPT !.players = w.players, !.doors = w.doors, !.buttons = w.buttons,
                  !.teleporters = [t \in DOMAIN w.teleporters |->
                                     TeleporterUpdate(w.teleporters[t])],
                  !.bulbs = SelectSeq(upd, LAMBDA b : ~b.inserted),
                  !.slots_occupied = g.slots_occupied + Cardinality(ins),
                  !.rewind = IF ins # {} THEN TRUE ELSE g.rewind,
                  !.clear_players = IF ins # {} THEN TRUE ELSE g.clear_players]
      Inserted(w, upd) == Machine(w, upd, { k \in DOMAIN upd : upd[k].inserted })
      Bulbs(sp, w) ==
        Inserted(w, [k \in DOMAIN g.bulbs |-> BulbUpdate(g.bulbs[k], g.tick, sp, w.players)])
      Buttons(sp) ==
        Bulbs(sp, ButtonsUpdate([players |-> g.players, doors |-> g.doors,
                                 teleporters |-> g.teleporters, buttons |-> g.buttons],
                                1, sp))
  IN Buttons(Spatial(g.players, g.tick))

ResolvePanics(g) == \E k \in DOMAIN g.bulbs : BulbPanics(g.bulbs[k], g.players)

(***************************************************************************)
(* History kept beside the game, for the properties below.                *)
(***************************************************************************)
\* the history of a fresh agent: rec is the position it had after each tick of
\* its recording pass, taint says that in the current pass a door tile was its
\* candidate tile or a teleporter moved it, recTaint the same of its recording pass
HistNew == [rec |-> << >>, taint |-> FALSE, recTaint |-> FALSE]

\* the counters of one loop iteration
IterNew(flag, count) ==
  [fwd |-> 0, rwf |-> 0, modes |-> 0, rs |-> 0, delivs |-> 0, flag |-> flag, count |-> count]

IsMode(ev) == ev.down /\ ev.key \in {"Escape", "Space", "R"}
HasEscape(evs) == \E n \in DOMAIN evs : evs[n] = KeyDown("Escape")
ModeCount(evs) == Cardinality({ n \in DOMAIN evs : IsMode(evs[n]) })

\* the hard-reset commands of the events that no cancel follows
ResetsAfterCancel(evs) ==
  Cardinality({ n \in DOMAIN evs :
                  /\ evs[n] = KeyDown("R")
                  /\ \A m \in DOMAIN evs : m > n => evs[m] # KeyDown("Escape") })

\* agent i of the roster ps meets a door tile in its update of tick t
MeetsDoor(ps, i, t) ==
  /\ t < Len(ps[i].controls)
  /\ Dir(ps[i].controls[t + 1]) # << 0, 0 >>
  /\ TileOf(Candidate(ps[i], ps[i].controls[t + 1])) \in DOMAIN doors

\* hist after a frame: h is hist after the input events, st the clock step and
\* g3 the game at the end of the frame
HistAfter(h, st, g3) ==
  LET moved(i) == g3.players[i] # st.game.players[i]
  IN IF st.kind = "hard" THEN << HistNew >>
     ELSE IF st.kind = "archive"
     THEN [i \in DOMAIN g3.players |->
             IF i = Len(g3.players) THEN [HistNew EXCEPT !.taint = moved(i)]
             ELSE [rec |-> h[i].rec,
                   recTaint |-> IF i = Len(h) THEN h[i].taint ELSE h[i].recTaint,
                   taint |-> moved(i)]]
     ELSE IF st.kind = "forward"
     THEN [i \in DOMAIN g3.players |->
             [h[i] EXCEPT
                !.taint = @ \/ moved(i) \/ MeetsDoor(st.pre, i, g3.tick - 1),
                !.rec = IF i = Len(g3.players)
                        THEN Append(@, GhostPosition(g3.players[i], g3.tick)) ELSE @]]
     ELSE [i \in DOMAIN g3.players |-> [h[i] EXCEPT !.taint = @ \/ moved(i)]]

\* stats after a frame
StatsAfter(evs, g1, st, g3) ==
  LET it0 == IF HasEscape(evs)
             THEN [IterNew(g1.clear_players, stats.archives + stats.resets)
                     EXCEPT !.rs = ResetsAfterCancel(evs)]
             ELSE [stats.iter EXCEPT !.modes = @ + ModeCount(evs),
                                     !.rs = @ + ResetsAfterCancel(evs)]
      nd  == g3.slots_occupied - g1.slots_occupied
      it1 == [it0 EXCEPT !.fwd = IF st.kind = "forward" THEN @ + 1 ELSE @,
                         !.rwf = IF st.kind \in {"rewind", "archive", "hard"} THEN @ + 1 ELSE @]
      a   == stats.archives + (IF st.kind = "archive" THEN 1 ELSE 0)
      r   == stats.resets + (IF st.kind = "hard" THEN 1 ELSE 0)
  IN [ frames   |-> stats.frames + 1,
       inputs   |-> stats.inputs + (IF evs = << >> THEN 0 ELSE 1),
       cancels  |-> stats.cancels + (IF HasEscape(evs) THEN 1 ELSE 0),
       archives |-> a,
       resets   |-> r,
       iter     |-> IF st.kind \in {"archive", "hard"}
                    THEN IterNew(g3.clear_players, a + r)
                    ELSE [it1 EXCEPT !.delivs = @ + nd],
       last     |-> IF st.kind \in {"archive", "hard"} THEN it1 ELSE stats.last ]

(***************************************************************************)
(* Game::update(inputs): one frame.                                       *)
(***************************************************************************)
FrameFrom(evs, g1, st, g3) ==
  IF ResolvePanics(st.game)
  THEN /\ panicked' = TRUE
       /\ obs' = [obs EXCEPT !.kind = "panic"]
       /\ stats' = [stats EXCEPT !.frames = @ + 1,
                                 !.inputs = @ + (IF evs = << >> THEN 0 ELSE 1)]
       /\ UNCHANGED << level, tick, rewind, clear_players, paused, controls, players,
                       buttons, doors, teleporters, bulbs, slots_occupied, hist >>
  ELSE /\ level' = level
       /\ tick' = g3.tick
       /\ rewind' = g3.rewind
       /\ clear_players' = g3.clear_players
       /\ paused' = g3.paused
       /\ controls' = g3.controls
       /\ players' = g3.players
       /\ buttons' = g3.buttons
       /\ doors' = g3.doors
       /\ teleporters' = g3.teleporters
       /\ bulbs' = g3.bulbs
       /\ slots_occupied' = g3.slots_occupied
       /\ panicked' = FALSE
       /\ obs' = [ kind      |-> st.kind,
                   escaped   |-> HasEscape(evs),
                   rewind0   |-> rewind,
                   tick0     |-> g1.tick,
                   doors0    |-> g1.doors,
                   buttons0  |-> g1.buttons,
                   bulbsPre  |-> g1.bulbs,
                   bulbs0    |-> st.game.bulbs,
                   pre       |-> st.pre,
                   mid       |-> st.game.players,
                   sp        |-> Spatial(st.game.players, st.game.tick),
                   prevSp    |-> obs.sp,
                   deliv     |-> g3.slots_occupied - g1.slots_occupied,
                   prevDeliv |-> obs.deliv ]
       /\ hist' = HistAfter(IF HasEscape(evs) THEN << HistNew >> ELSE hist, st, g3)
       /\ stats' = StatsAfter(evs, g1, st, g3)

\* a frame that resolves no objects while the game is Rewinding
FrameNoResolveWhileRewinding(evs) ==
  \E g1 \in { Unpause(HandleInputs(Game, evs)) } :
    \E st \in { ClockStep(g1) } :
      \E g3 \in { IF ResolvePanics(st.game) \/ st.kind \in {"rewind", "archive", "hard"}
                   THEN st.game ELSE Resolve(st.game) } :
        FrameFrom(evs, g1, st, g3)

Frame(evs) ==
  \E g1 \in { Unpause(HandleInputs(Game, evs)) } :
    \E st \in { ClockStep(g1) } :
      \E g3 \in { IF ResolvePanics(st.game) THEN st.game ELSE Resolve(st.game) } :
        FrameFrom(evs, g1, st, g3)

(***************************************************************************)
(* The state after Game::new (game.rs 209-288).                           *)
(***************************************************************************)
Init ==
  /\ level = CreateLevel(LEVEL, BUTTON_CONNECTIONS, TELEPORTER_CONNECTIONS)
  /\ level.ok
  /\ \A t \in DOMAIN level.teleporters : level.teleporters[t] # << >>
  /\ tick = 0
  /\ rewind = FALSE
  /\ clear_players = FALSE
  /\ paused = TRUE
  /\ controls = NoControls
  /\ players = << GhostNew(level.player_start) >>
  /\ \E q \in Orders(DOMAIN level.buttons) :
       buttons = [k \in DOMAIN q |->
                    [position |-> q[k], connections |-> level.buttons[q[k]], active |-> FALSE]]
  /\ doors = [d \in level.doors |-> FALSE]
  /\ teleporters = [t \in DOMAIN level.teleporters |-> 0]
  /\ \E q \in Orders(level.bulbs) :
       bulbs = [k \in DOMAIN q |-> BulbNew(<< q[k][1] * CELL + HALF, q[k][2] * CELL + HALF >>)]
  /\ slots_occupied = 0
  /\ panicked = FALSE
  /\ obs = [ kind |-> "init", escaped |-> FALSE, rewind0 |-> FALSE, tick0 |-> 0,
             doors0 |-> [d \in level.doors |-> FALSE], buttons0 |-> << >>,
             bulbsPre |-> << >>,
             bulbs0 |-> << >>, pre |-> << >>, mid |-> << >>, sp |-> << >>, prevSp |-> << >>,
             deliv |-> 0, prevDeliv |-> 0 ]
  /\ hist = << HistNew >>
  /\ stats = [ frames |-> 0, inputs |-> 0, cancels |-> 0, archives |-> 0, resets |-> 0,
               iter |-> IterNew(FALSE, 0), last |-> IterNew(FALSE, 0) ]

(***************************************************************************)
(* The inputs of a frame.  Spec explores MaxFrames frames of which at     *)
(* most MaxInputs carry events; an input that changes nothing is the idle *)
(* frame and is not enumerated again.                                     *)
(***************************************************************************)
DirKeys == {"W", "A", "S", "D"}

Inputs ==
  { << KeyDown(k) >> : k \in DirKeys \cup {"Escape", "Space", "R"} }
  \cup { << KeyUp(k) >> : k \in DirKeys }
  \cup { << KeyUp(a), KeyDown(b) >> : a, b \in DirKeys }
  \cup { << KeyDown("R"), KeyDown("Escape") >> }

Effective(evs) == HandleInputs(Game, evs) # Game

FrameIdle ==
  /\ ~panicked
  /\ stats.frames < MaxFrames
  /\ Frame(<< >>)

FrameInput ==
  /\ ~panicked
  /\ stats.frames < MaxFrames
  /\ stats.inputs < MaxInputs
  /\ \E evs \in Inputs : Effective(evs) /\ Frame(evs)

Next == FrameIdle \/ FrameInput

Spec == Init /\ [][Next]_vars

(***************************************************************************)
(* SpecLoop: a key (or two) is pressed in the first frame and held; the   *)
(* game then runs untouched through whole loops of LOOP_TICKS ticks.      *)
(***************************************************************************)
LoopStarts ==
  { << KeyDown(k) >> : k \in DirKeys }
  \cup { << KeyDown("W"), KeyDown("D") >>, << KeyDown("S"), KeyDown("A") >> }
  \cup { << KeyDown(k), KeyDown("R"), KeyDown("Escape") >> : k \in {"D", "A"} }

LoopStart ==
  /\ ~panicked
  /\ paused
  /\ \E evs \in LoopStarts : Frame(evs)

LoopFrame ==
  /\ ~panicked
  /\ ~paused
  /\ stats.archives + stats.resets < MaxLoops
  /\ Frame(<< >>)

NextLoop == LoopStart \/ LoopFrame

SpecLoop == Init /\ [][NextLoop]_vars

(***************************************************************************)
(* SpecDeep: longer runs along a script of inputs, deep enough for a      *)
(* second pass of several ticks followed by a rewind.  The n-th frame     *)
(* that carries events takes them from the n-th entry of the script; the  *)
(* frames in between are idle, in any number.                             *)
(***************************************************************************)
DeepScript ==
  << { << KeyDown("D") >> },
     { << KeyDown("Space") >> },
     { << KeyUp("D"), KeyDown("W") >>, << KeyUp("D"), KeyDown("A") >> },
     { << KeyUp("W"), KeyDown("S") >>, << KeyUp("A"), KeyDown("W") >> },
     { << KeyDown("Space") >> } >>

DeepIdle ==
  /\ ~panicked
  /\ stats.frames < DeepFrames
  /\ Frame(<< >>)

DeepInput ==
  /\ ~panicked
  /\ stats.frames < DeepFrames
  /\ stats.inputs < Len(DeepScript)
  /\ \E evs \in DeepScript[stats.inputs + 1] : Effective(evs) /\ Frame(evs)

NextDeep == DeepIdle \/ DeepInput

SpecDeep == Init /\ [][NextDeep]_vars

(***************************************************************************)
(* SpecBoundary: SpecLoop with input frames at the end of the loop: when  *)
(* tick is within BoundaryWindow of LOOP_TICKS a frame may carry any of   *)
(* the inputs of Spec, MaxBoundaryInputs times in a run.                  *)
(***************************************************************************)
BoundaryInput ==
  /\ ~panicked
  /\ ~paused
  /\ stats.archives + stats.resets < MaxLoops
  /\ tick >= LOOP_TICKS - BoundaryWindow
  /\ stats.inputs <= MaxBoundaryInputs
  /\ \E evs \in Inputs : Effective(evs) /\ Frame(evs)

NextBoundary == LoopStart \/ LoopFrame \/ BoundaryInput

SpecBoundary == Init /\ [][NextBoundary]_vars

(***************************************************************************)
(* SpecSwap: three passes along a script.  The first agent walks onto one  *)
(* teleporter of the pair; the second walks onto the other one or onto    *)
(* the button connected to both; the third steps onto that button or onto *)
(* the button of the door, while the two echoes replay.  Idle frames come *)
(* in between, in any number.                                             *)
(***************************************************************************)
SwapScript ==
  << { << KeyDown("D") >> },
     { << KeyUp("D"), KeyDown("S") >> },
     { << KeyDown("Space") >> },
     { << KeyUp("S"), KeyDown("D") >>, << KeyUp("S") >> },
     { << KeyDown("Space") >>, << KeyDown("W") >> },
     { << KeyUp("D") >>, << KeyDown("Space") >> },
     { << KeyDown("W") >>, << KeyUp("W") >> },
     { << KeyDown("S") >> } >>

SwapIdle ==
  /\ ~panicked
  /\ stats.frames < SwapFrames
  /\ Frame(<< >>)

SwapInput ==
  /\ ~panicked
  /\ stats.frames < SwapFrames
  /\ stats.inputs < Len(SwapScript)
  /\ \E evs \in SwapScript[stats.inputs + 1] : Effective(evs) /\ Frame(evs)

NextSwap == SwapIdle \/ SwapInput

SpecSwap == Init /\ [][NextSwap]_vars

(***************************************************************************)
(* SpecLevel: startup over every one-row level of LevelWidth tiles.  The  *)
(* tile layout and the teleporter overlay are the inputs, kept in obs;    *)
(* LevelCreate is the call of create_level at game.rs 209 and LevelGameNew *)
(* the rest of Game::new over the Level it returned.                      *)
(***************************************************************************)
\* tile characters of the explored layouts; "?" is none of TileChars
LevelLayoutChars == {" ", "T", "M", "?"}

\* characters of the explored teleporter overlays
LevelLabelChars == {" ", "G", "H"}

\* an overlay without labels, as wide as the layout
BlankRow(row) == [n \in DOMAIN row |-> " "]

InitLevel ==
  /\ \E layout \in [1..LevelWidth -> LevelLayoutChars] :
       \E tconn \in [1..LevelWidth -> LevelLabelChars] :
         obs = [ kind |-> "input", layout |-> << layout >>, tconn |-> << tconn >> ]
  /\ level = [ ok |-> FALSE ]
  /\ tick = 0
  /\ rewind = FALSE
  /\ clear_players = FALSE
  /\ paused = TRUE
  /\ controls = NoControls
  /\ players = << >>
  /\ buttons = << >>
  /\ doors = << >>
  /\ teleporters = << >>
  /\ bulbs = << >>
  /\ slots_occupied = 0
  /\ panicked = FALSE
  /\ hist = << >>
  /\ stats = [ frames |-> 0, inputs |-> 0, cancels |-> 0, archives |-> 0, resets |-> 0,
               iter |-> IterNew(FALSE, 0), last |-> IterNew(FALSE, 0) ]

\* let level = create_level(): a panic ends the process
LevelCreate ==
  /\ obs.kind = "input"
  /\ level' = CreateLevel(obs.layout, << BlankRow(obs.layout[1]) >>, obs.tconn)
  /\ panicked' = ~level'.ok
  /\ obs' = [obs EXCEPT !.kind = "created"]
  /\ UNCHANGED << tick, rewind, clear_players, paused, controls, players, buttons,
                  doors, teleporters, bulbs, slots_occupied, hist, stats >>

\* the rest of Game::new: teleporter_tile.connection.expect("unconnected
\* teleporter") panics on a teleporter without a connection
LevelGameNew ==
  /\ obs.kind = "created"
  /\ ~panicked
  /\ IF \E t \in DOMAIN level.teleporters : level.teleporters[t] = << >>
     THEN /\ panicked' = TRUE
          /\ obs' = [obs EXCEPT !.kind = "aborted"]
          /\ UNCHANGED << players, buttons, doors, teleporters, bulbs, hist >>
     ELSE /\ panicked' = FALSE
          /\ obs' = [obs EXCEPT !.kind = "started"]
          /\ players' = << GhostNew(level.player_start) >>
          /\ \E q \in Orders(DOMAIN level.buttons) :
               buttons' = [k \in DOMAIN q |->
                             [position |-> q[k], connections |-> level.buttons[q[k]],
                              active |-> FALSE]]
          /\ doors' = [d \in level.doors |-> FALSE]
          /\ teleporters' = [t \in DOMAIN level.teleporters |-> 0]
          /\ \E q \in Orders(level.bulbs) :
               bulbs' = [k \in DOMAIN q |->
                           BulbNew(<< q[k][1] * CELL + HALF, q[k][2] * CELL + HALF >>)]
          /\ hist' = << HistNew >>
  /\ UNCHANGED << level, tick, rewind, clear_players, paused, controls,
                  slots_occupied, stats >>

NextLevel == LevelCreate \/ LevelGameNew

SpecLevel == InitLevel /\ [][NextLevel]_vars

(***************************************************************************)
(* Properties.  A frame is read from the state it ends in: obs says what  *)
(* kind of clock step it took and what the occupancy index held.          *)
(***************************************************************************)
\* teleporter c was activated in the frame that ended here: activate sets the
\* timer and Teleporter::update has decayed it once since
Activated(c) == ~panicked /\ obs.kind # "init" /\ teleporters[c] = ACTIVE_TIMER - 1

\* the frame that ended here found tile c occupied / the frame before it did
Occupied(c) == c \in DOMAIN obs.sp
OccupiedBefore(c) == c \in DOMAIN obs.prevSp

\* the spawn positions of the bulbs of the level
BulbSpawns == { << c[1] * CELL + HALF, c[2] * CELL + HALF >> : c \in level.bulbs }

\* every bulb is free and lies, at every tick, at its spawn position
BulbsAtSpawn ==
  \A k \in DOMAIN bulbs :
    /\ bulbs[k].picked_up = << >>
    /\ bulbs[k].positions[1] \in BulbSpawns
    /\ \A n \in DOMAIN bulbs[k].positions : bulbs[k].positions[n] = bulbs[k].positions[1]

\* C2: in every reachable state the recording agent (the last of the roster)
\* has exactly one more position than it has control entries
C2_IndexInvariant ==
  Len(Last(players).positions) = Len(Last(players).controls) + 1

\* C2 witness: a second-pass recorder with a log of several entries, beside an echo
C2_Witness ==
  /\ Len(players) >= 2
  /\ Len(Last(players).controls) >= 2
  /\ Len(Last(players).positions) = Len(Last(players).controls) + 1
  /\ Last(Last(players).positions) # level.player_start

\* C5: in a forward frame every agent with a log entry for the tick gains exactly
\* one position, and when its candidate tile is a wall or a closed door the new
\* entry equals the previous one
C5_CollisionIdempotence ==
  (~panicked /\ obs.kind = "forward") =>
    \A i \in DOMAIN obs.pre :
      obs.tick0 < Len(obs.pre[i].controls) =>
        /\ Len(obs.mid[i].positions) = Len(obs.pre[i].positions) + 1
        /\ SubSeq(obs.mid[i].positions, 1, Len(obs.pre[i].positions)) = obs.pre[i].positions
        /\ Colliding(TileOf(Candidate(obs.pre[i], obs.pre[i].controls[obs.tick0 + 1])),
                     obs.doors0)
             => Last(obs.mid[i].positions) = Last(obs.pre[i].positions)

\* C5 witness: an agent has walked against a closed door and was held in place
C5_Witness ==
  /\ ~panicked /\ obs.kind = "forward"
  /\ \E i \in DOMAIN obs.pre :
       /\ obs.tick0 < Len(obs.pre[i].controls)
       /\ Dir(obs.pre[i].controls[obs.tick0 + 1]) # << 0, 0 >>
       /\ TileOf(Candidate(obs.pre[i], obs.pre[i].controls[obs.tick0 + 1])) \in DOMAIN doors
       /\ ~obs.doors0[TileOf(Candidate(obs.pre[i], obs.pre[i].controls[obs.tick0 + 1]))]
       /\ Last(obs.mid[i].positions) = Last(obs.pre[i].positions)
       /\ Len(obs.mid[i].positions) = Len(obs.pre[i].positions) + 1

\* C9: the frame in which a rewind reaches tick 0 with the flag clear ends with one
\* agent more, every old log unchanged, every agent at the single spawn pose, an
\* empty log for the new last agent and every bulb free at its spawn
C9_Archive ==
  (~panicked /\ obs.kind = "archive") =>
    /\ Len(players) = Len(obs.pre) + 1
    /\ \A i \in DOMAIN obs.pre : players[i].controls = obs.pre[i].controls
    /\ \A i \in DOMAIN players : players[i].positions = << level.player_start >>
    /\ Last(players).controls = << >>
    /\ Len(bulbs) = Len(obs.bulbsPre)
    /\ BulbsAtSpawn
    /\ tick = 0 /\ ~rewind /\ ~clear_players

\* C9 witness: an archive of an agent that had moved and was carrying the bulb
C9_Witness ==
  /\ ~panicked /\ obs.kind = "archive"
  /\ Len(Last(obs.pre).controls) >= 2
  /\ Len(Last(obs.pre).positions) >= 3
  /\ \E k \in DOMAIN obs.bulbsPre : obs.bulbsPre[k].picked_up # << >>
  /\ Len(players) = Len(obs.pre) + 1

\* C10: the frame in which a rewind reaches tick 0 with the flag set ends with a
\* roster of exactly one fresh agent, the flag cleared and every bulb free at spawn
C10_HardReset ==
  (~panicked /\ obs.kind = "hard") =>
    /\ players = << GhostNew(level.player_start) >>
    /\ ~clear_players
    /\ Len(bulbs) = Len(obs.bulbsPre)
    /\ BulbsAtSpawn
    /\ tick = 0 /\ ~rewind

\* C10 witness: a hard reset that discards an echo while the bulb was carried
C10_Witness ==
  /\ ~panicked /\ obs.kind = "hard"
  /\ Len(obs.pre) >= 2
  /\ \E k \in DOMAIN obs.bulbsPre : obs.bulbsPre[k].picked_up # << >>
  /\ players = << GhostNew(level.player_start) >>

\* C3: a loop iteration that starts at tick 0 and sees no mode command and no
\* delivery is Rewinding once LOOP_TICKS forward ticks are done, the clock then
\* steps down by REWIND_STEP a frame, and the rewind completes in the frame
\* number LOOP_TICKS / REWIND_STEP, at tick 0, back in Active, with exactly one
\* archive, or one hard reset if the flag was pending
C3_RewindBoundary ==
  /\ (/\ ~panicked
      /\ stats.iter.fwd = LOOP_TICKS /\ stats.iter.modes = 0 /\ stats.iter.delivs = 0)
       => /\ rewind
          /\ stats.iter.rwf < (LOOP_TICKS + REWIND_STEP - 1) \div REWIND_STEP
          /\ tick = LOOP_TICKS - REWIND_STEP * stats.iter.rwf
          /\ tick > 0
          /\ stats.archives + stats.resets = stats.iter.count
  /\ (/\ ~panicked
      /\ stats.iter.fwd < LOOP_TICKS /\ stats.iter.modes = 0 /\ stats.iter.delivs = 0)
       => /\ ~rewind
          /\ stats.iter.rwf = 0
          /\ tick = stats.iter.fwd
  /\ (/\ ~panicked /\ obs.kind \in {"archive", "hard"}
      /\ stats.last.modes = 0 /\ stats.last.delivs = 0)
       => /\ stats.last.fwd = LOOP_TICKS
          /\ stats.last.rwf = (LOOP_TICKS + REWIND_STEP - 1) \div REWIND_STEP
          /\ tick = 0 /\ ~rewind
          /\ stats.archives + stats.resets = stats.last.count + 1
          /\ (obs.kind = "hard") = stats.last.flag

\* C3 witness: a whole loop has run untouched and has ended in an archive
C3_Witness ==
  /\ ~panicked /\ obs.kind = "archive"
  /\ stats.last.fwd = LOOP_TICKS /\ stats.last.rwf = 120
  /\ stats.last.modes = 0 /\ stats.last.delivs = 0
  /\ tick = 0 /\ ~rewind /\ Len(players) = 2

\* C4: a teleporter connected to a button is activated in a frame exactly when the
\* button's tile is occupied in that frame's occupancy index and was not occupied
\* in the index of the frame before, so once per interval of occupied frames
C4_ButtonEdgeTrigger ==
  (~panicked /\ obs.kind # "init") =>
    \A c \in DOMAIN teleporters :
      (\E k \in DOMAIN buttons : \E n \in DOMAIN buttons[k].connections :
         buttons[k].connections[n] = c)
        => (Activated(c) <=>
              \E k \in DOMAIN buttons :
                /\ \E n \in DOMAIN buttons[k].connections : buttons[k].connections[n] = c
                /\ Occupied(buttons[k].position)
                /\ ~OccupiedBefore(buttons[k].position))

\* C4 witness: a button stays occupied while the agents on it change, and its
\* teleporter, activated earlier in the interval, is not activated again
C4_Witness ==
  /\ ~panicked /\ obs.kind # "init"
  /\ \E k \in DOMAIN buttons : \E n \in DOMAIN buttons[k].connections :
       /\ buttons[k].connections[n] \in DOMAIN teleporters
       /\ Occupied(buttons[k].position)
       /\ OccupiedBefore(buttons[k].position)
       /\ obs.sp[buttons[k].position] # obs.prevSp[buttons[k].position]
       /\ teleporters[buttons[k].connections[n]] > 0
       /\ ~Activated(buttons[k].connections[n])

\* the bulbs that Bulb::update finds carried within the delivery radius of the
\* machine in the frame that ended here (the carrier's position is pushed first)
InRadius ==
  { k \in DOMAIN obs.bulbs0 :
      /\ obs.bulbs0[k].picked_up # << >>
      /\ Dist2(MachinePosition,
               BulbPosition([positions |->
                               Append(obs.bulbs0[k].positions,
                                      GhostPosition(players[obs.bulbs0[k].picked_up[1][2]],
                                                    tick))],
                            tick)) < CELL * CELL }

\* C7 as stated: the frame after a delivery, with no cancel in it, ends with the
\* roster collapsed to one fresh agent at spawn and tick 0
C7_NextFrameCollapsed ==
  (~panicked /\ obs.kind # "init" /\ obs.prevDeliv > 0 /\ ~obs.escaped) =>
    /\ players = << GhostNew(level.player_start) >>
    /\ tick = 0

\* C7 amended: a carried bulb within the radius is removed and counted in the
\* frame it is found, which leaves the game Rewinding with the flag set; the
\* next frame, if it holds no cancel, steps the clock down by REWIND_STEP, and
\* the roster collapses in that frame only if the clock has reached 0
C7_DeliveryCheckpoint ==
  /\ (~panicked /\ obs.kind \notin {"init", "panic"}) =>
       /\ obs.deliv = Cardinality(InRadius)
       /\ Len(bulbs) + obs.deliv = Len(obs.bulbs0)
       /\ obs.deliv > 0 => (rewind /\ clear_players /\ slots_occupied >= obs.deliv)
  /\ (~panicked /\ obs.kind # "init" /\ obs.prevDeliv > 0 /\ ~obs.escaped) =>
       /\ tick = SaturatingSub(obs.tick0, REWIND_STEP)
       /\ IF tick = 0
          THEN /\ obs.kind = "hard"
               /\ players = << GhostNew(level.player_start) >>
               /\ ~rewind /\ ~clear_players
          ELSE /\ obs.kind = "rewind"
               /\ rewind /\ clear_players
               /\ Len(players) = Len(obs.pre)

\* C7 witness: the frame after a delivery has collapsed a roster that had moved
C7_Witness ==
  /\ ~panicked /\ obs.kind = "hard" /\ obs.prevDeliv = 1 /\ ~obs.escaped
  /\ Len(Last(obs.pre).controls) >= 2
  /\ slots_occupied = 1 /\ bulbs = << >>
  /\ players = << GhostNew(level.player_start) >> /\ tick = 0

\* the position agent i had at tick t of the pass in which it was recorded; past
\* the end of the recording it is the last recorded one
RecAt(i, t) ==
  IF t = 0 \/ hist[i].rec = << >> THEN level.player_start
  ELSE IF t <= Len(hist[i].rec) THEN hist[i].rec[t]
  ELSE Last(hist[i].rec)

\* the echoes: every agent of the roster but the last
Echoes == 1..(Len(players) - 1)

\* C1 as stated: at the end of every forward frame every echo is where it was at
\* that tick of its recording pass, whatever the other agents do
C1_EchoReplaysTrajectory ==
  (~panicked /\ obs.kind = "forward") =>
    \A i \in Echoes : GhostPosition(players[i], tick) = RecAt(i, tick)

\* C1 amended: an echo is where it was at that tick of its recording pass as long
\* as, in that pass and in the current one, no teleporter has moved it and no
\* candidate tile of its steps was a door tile
C1_ReplayUnlessDiverted ==
  (~panicked /\ obs.kind = "forward") =>
    \A i \in Echoes :
      (~hist[i].taint /\ ~hist[i].recTaint)
        => GhostPosition(players[i], tick) = RecAt(i, tick)

\* C1 witness: an echo repeats a recorded trajectory of several steps while the
\* recording agent goes another way
C1_Witness ==
  /\ ~panicked /\ obs.kind = "forward"
  /\ tick >= 2
  /\ \E i \in Echoes :
       /\ ~hist[i].taint /\ ~hist[i].recTaint
       /\ Len(hist[i].rec) >= tick
       /\ GhostPosition(players[i], tick) = hist[i].rec[tick]
       /\ hist[i].rec[tick] # hist[i].rec[tick - 1]
       /\ GhostPosition(Last(players), tick) # GhostPosition(players[i], tick)

\* agent i is listed, in the occupancy index of the frame that ended here, at the
\* tile of a teleporter that was activated in that frame
ListedAt(i, c) == c \in DOMAIN obs.sp /\ \E n \in DOMAIN obs.sp[c] : obs.sp[c][n] = i
Teleported(i) == \E c \in DOMAIN teleporters : Activated(c) /\ ListedAt(i, c)

\* C6 as stated: in a forward frame an echo whose log was exhausted before the
\* frame keeps the position it had, for the rest of the loop
C6_ExhaustedEchoHolds ==
  [][ (~panicked' /\ obs'.kind = "forward" /\ ~obs'.escaped) =>
        \A i \in Echoes :
          tick >= Len(players[i].controls)
            => GhostPosition(players'[i], tick') = GhostPosition(players[i], tick) ]_vars

\* C6 amended: in every state position(t) of an agent with a log of length L >= 1
\* is position(L - 1) for every t >= L; and a forward frame changes the position
\* of an echo whose log was exhausted only by teleporting it, to the target of a
\* teleporter activated in that frame at whose tile the index lists the echo
C6_EchoFreeze ==
  /\ [](\A i \in DOMAIN players :
          Len(players[i].controls) >= 1 =>
            \A t \in Len(players[i].controls)..(Len(players[i].positions) + 1) :
              GhostPosition(players[i], t)
                = GhostPosition(players[i], Len(players[i].controls) - 1))
  /\ [][ (~panicked' /\ obs'.kind = "forward" /\ ~obs'.escaped) =>
           \A i \in Echoes :
             tick >= Len(players[i].controls)
               => \/ GhostPosition(players'[i], tick') = GhostPosition(players[i], tick)
                  \/ \E c \in DOMAIN teleporters' :
                       /\ teleporters'[c] = ACTIVE_TIMER - 1
                       /\ c \in DOMAIN obs'.sp
                       /\ \E n \in DOMAIN obs'.sp[c] : obs'.sp[c][n] = i
                       /\ GhostPosition(players'[i], tick') = TeleportTarget(c) ]_vars

\* C6 witness: an echo rests on the last pose of its log, away from the spawn,
\* two ticks and more after the log has run out
C6_Witness ==
  /\ ~panicked /\ obs.kind = "forward"
  /\ \E i \in Echoes :
       /\ Len(players[i].controls) >= 1
       /\ tick >= Len(players[i].controls) + 2
       /\ ~hist[i].taint
       /\ GhostPosition(players[i], tick)
            = GhostPosition(players[i], Len(players[i].controls) - 1)
       /\ GhostPosition(players[i], tick) # level.player_start

\* C8: in every frame in which a teleporter is activated, the agents the occupancy
\* index lists at its own tile are, at the end of the frame, at the centre of the
\* paired tile, and the positions of every agent listed at no activated teleporter
\* are unchanged by the resolution
C8_TeleportMovesOccupants ==
  (~panicked /\ obs.kind \notin {"init", "panic"}) =>
    /\ \A c \in DOMAIN teleporters : \A i \in DOMAIN players :
         (Activated(c) /\ ListedAt(i, c))
           => GhostPosition(players[i], tick) = TeleportTarget(c)
    /\ \A i \in DOMAIN players :
         ~Teleported(i) => players[i].positions = obs.mid[i].positions

\* C11: a frame whose events end with a cancel takes no rewinding step, whether
\* the game was Active or Rewinding before it: the clock step of that frame
\* starts from tick 0 with a roster of exactly one fresh agent at spawn, in
\* Active mode, so the frame is a paused one that leaves that agent untouched or
\* a forward one that records the first tick of the fresh agent
C11_CancelImmediate ==
  (~panicked /\ obs.escaped) =>
    /\ obs.kind \in {"forward", "paused"}
    /\ obs.tick0 = 0
    /\ Len(players) = 1
    /\ players[1].positions[1] = level.player_start
    /\ IF obs.kind = "paused"
       THEN /\ tick = 0
            /\ obs.pre = << GhostNew(level.player_start) >>
            /\ obs.mid = << GhostNew(level.player_start) >>
       ELSE /\ tick = 1
            /\ obs.pre = << GhostPushControls(GhostNew(level.player_start), controls) >>
    /\ (obs.deliv = 0) => ~rewind

\* C11 witness: a cancel received while the game was Rewinding, above tick 0, has
\* put a fresh agent in place that has already recorded its first tick
C11_Witness ==
  /\ ~panicked /\ obs.escaped /\ obs.rewind0
  /\ obs.kind = "forward" /\ tick = 1 /\ ~rewind
  /\ Len(players) = 1 /\ Len(players[1].controls) = 1

\* C12: a rewind that completes with no hard-reset command and no delivery since
\* the last cancel (or since the rewind before it) performs an archive, not a
\* hard reset: a cancel discards a pending hard-reset flag
C12_CancelDiscardsFlag ==
  (/\ ~panicked /\ obs.kind \in {"archive", "hard"}
   /\ stats.last.rs = 0 /\ stats.last.delivs = 0)
    => /\ obs.kind = "archive"
       /\ Len(players) = Len(obs.pre) + 1

\* C13: tick is never negative; a frame processed in Rewinding state ends with
\* tick = max(tick - REWIND_STEP, 0); while that is above 0 the frame leaves the
\* game Rewinding with the roster, the logs and the pending flag as they were and
\* the bulbs not reset; the archive or hard reset and the return to Active happen
\* in the frame that ends at tick 0, and in no frame processed in Active state
C13_RewindClamp ==
  /\ tick >= 0
  /\ (~panicked /\ obs.kind \in {"rewind", "archive", "hard"}) =>
       /\ tick = (IF obs.tick0 - REWIND_STEP > 0 THEN obs.tick0 - REWIND_STEP ELSE 0)
       /\ (obs.kind = "rewind") <=> (tick > 0)
       /\ (obs.kind = "rewind") =>
            /\ rewind
            /\ stats.archives + stats.resets = stats.iter.count
            /\ Len(players) = Len(obs.pre)
            /\ \A i \in DOMAIN players : players[i].controls = obs.pre[i].controls
            /\ obs.mid = obs.pre
            /\ \A k \in DOMAIN obs.bulbs0 : obs.bulbs0[k] = obs.bulbsPre[k]
       /\ (obs.kind # "rewind") =>
            /\ obs.deliv = 0 => ~rewind
            /\ \A i \in DOMAIN obs.mid : obs.mid[i].positions = << level.player_start >>
            /\ \A k \in DOMAIN obs.bulbs0 : obs.bulbs0[k] = BulbReset(obs.bulbsPre[k])
  /\ (~panicked /\ obs.kind \in {"forward", "paused"}) =>
       /\ stats.archives + stats.resets = stats.iter.count
       /\ Len(players) = Len(obs.pre)
       /\ \A k \in DOMAIN obs.bulbs0 : obs.bulbs0[k] = obs.bulbsPre[k]

\* C13 witness: a rewind from a tick below REWIND_STEP, with a log recorded, is
\* clamped at 0 and archives in that frame
C13_Witness ==
  /\ ~panicked /\ obs.kind = "archive"
  /\ obs.tick0 > 1 /\ obs.tick0 < REWIND_STEP
  /\ Len(Last(obs.pre).controls) = obs.tick0
  /\ tick = 0 /\ ~rewind /\ Len(players) = Len(obs.pre) + 1

\* C14 as stated: every frame processed in Active state, from the initial state
\* on, increases tick by exactly 1 and appends exactly one entry, the held
\* control state, to the log of the recording agent
C14_ActiveFrameTicks ==
  [][ (~panicked' /\ obs'.kind \in {"forward", "paused"} /\ ~obs'.escaped) =>
        /\ tick' = tick + 1
        /\ Last(players').controls = Append(Last(players).controls, controls') ]_vars

\* C14 amended: while no direction key has been held since the start the game is
\* paused: tick is 0, every log is empty and a frame processed in Active state
\* changes neither.  Once a direction key is held the game is never paused again,
\* and every frame processed in Active state increases tick by exactly 1 and
\* appends exactly the held control state to the log of the recording agent, whose
\* log has then one entry per tick; the logs of the echoes do not change
C14_ForwardTick ==
  /\ [](~panicked =>
          /\ paused => (/\ tick = 0
                        /\ controls = NoControls
                        /\ \A i \in DOMAIN players : players[i].controls = << >>)
          /\ (obs.kind = "paused") => paused
          /\ (obs.kind = "forward") =>
               (~paused /\ Len(Last(players).controls) = tick
                        /\ Last(Last(players).controls) = controls))
  /\ [][ ~panicked' =>
           /\ paused' <=> (paused /\ controls' = NoControls)
           /\ (obs'.kind = "paused") =>
                (tick' = 0 /\ Last(players').controls = << >>)
           /\ (obs'.kind = "forward" /\ ~obs'.escaped) =>
                /\ tick' = tick + 1
                /\ Len(players') = Len(players)
                /\ Last(players').controls = Append(Last(players).controls, controls')
                /\ \A i \in Echoes : players'[i].controls = players[i].controls
           /\ (obs'.kind = "forward" /\ obs'.escaped) =>
                (tick' = 1 /\ Len(players') = 1
                           /\ players'[1].controls = << controls' >>) ]_vars

\* C14 witness: a forward frame of a second pass, several ticks in, has appended
\* the held control state to the log of the recording agent
C14_Witness ==
  /\ ~panicked /\ obs.kind = "forward" /\ ~paused
  /\ Len(players) >= 2
  /\ tick >= 3
  /\ Len(Last(players).controls) = tick
  /\ controls # NoControls
  /\ Last(Last(players).controls) = controls
  /\ Last(players).controls[1] # controls

\* C15: a frame processed in Rewinding state resolves no object: after its clock
\* step (and the reset of the frame that reaches tick 0) no button's active flag,
\* no door's open flag, no bulb's state or position history and no agent's
\* position entry changes, and no teleporter is activated
C15_NoResolutionWhileRewinding ==
  (~panicked /\ obs.kind \in {"rewind", "archive", "hard"}) =>
    /\ buttons = obs.buttons0
    /\ doors = obs.doors0
    /\ \A c \in DOMAIN teleporters : ~Activated(c)
    /\ bulbs = obs.bulbs0
    /\ players = obs.mid

\* the index, in positions, of the entry that position(t) returns
CurrentEntry(g, t) == IF t + 2 <= Len(g.positions) THEN t + 2 ELSE Len(g.positions)

\* C16: in every frame, Rewinding frames included, the resolution changes no
\* position entry of any agent other than the entry of the current tick, the one
\* that position(tick) returns: a teleport never rewrites another tick's entry
C16_TeleportCurrentEntryOnly ==
  (~panicked /\ obs.kind \notin {"init", "panic"}) =>
    \A i \in DOMAIN players :
      /\ Len(players[i].positions) = Len(obs.mid[i].positions)
      /\ \A n \in DOMAIN players[i].positions :
           players[i].positions[n] # obs.mid[i].positions[n]
             => n = CurrentEntry(players[i], tick)

\* the entries of the bulb list bs that hold the bulb b, known by its spawn
SameBulb(bs, b) == { j \in DOMAIN bs : bs[j].positions[1] = b.positions[1] }

\* C17: a bulb leaves the list (Delivered) only in a frame that is no reset and
\* only if it was Carried before the frame, and it never comes back; a Carried
\* bulb that stays in the list keeps its carrier and pickup tick in every frame
\* but the one in which a rewind reaches tick 0, which makes every bulb Free
C17_ItemStateMachine ==
  /\ [](~panicked =>
          \A k \in DOMAIN bulbs : ~bulbs[k].inserted /\ Len(bulbs[k].picked_up) <= 1)
  /\ [][ ~panicked' =>
           /\ \A j \in DOMAIN bulbs' : SameBulb(bulbs, bulbs'[j]) # {}
           /\ \A k \in DOMAIN bulbs :
                /\ (SameBulb(bulbs', bulbs[k]) = {}) =>
                     /\ bulbs[k].picked_up # << >>
                     /\ obs'.kind \notin {"archive", "hard"}
                     /\ slots_occupied' > slots_occupied
                /\ (bulbs[k].picked_up # << >> /\ obs'.kind \notin {"archive", "hard"}) =>
                     \A j \in SameBulb(bulbs', bulbs[k]) :
                       bulbs'[j].picked_up = bulbs[k].picked_up
                /\ (obs'.kind \in {"archive", "hard"}) =>
                     \A j \in SameBulb(bulbs', bulbs[k]) :
                       \/ bulbs'[j].picked_up = << >>
                       \/ bulbs'[j].picked_up[1][1] = 0 ]_vars

\* C17 witness: a bulb picked up two ticks ago and more is still carried by the
\* same agent, which has moved on since
C17_Witness ==
  /\ ~panicked /\ obs.kind = "forward"
  /\ \E k \in DOMAIN bulbs :
       /\ bulbs[k].picked_up # << >>
       /\ bulbs[k].picked_up[1][1] + 2 <= tick
       /\ k \in DOMAIN obs.bulbsPre
       /\ obs.bulbsPre[k].picked_up = bulbs[k].picked_up
       /\ GhostPosition(players[bulbs[k].picked_up[1][2]], tick) # bulbs[k].positions[1]

\* the bulb b after the push of Bulb::update for a carried bulb: the position of
\* its carrier at tick t is appended
CarriedPush(b, ps, t) ==
  [b EXCEPT !.positions = Append(b.positions, GhostPosition(ps[b.picked_up[1][2]], t))]

\* C18: in every forward frame of a run without a cancel, for every bulb that is
\* Carried when the frame resolves it, the bulb's position at the current tick,
\* which is the value of the delivery test, is the position of its carrier at the
\* current tick, however many frames were spent at tick 0 before the first key
C18_CarriedFollowsCarrier ==
  (~panicked /\ obs.kind = "forward" /\ stats.cancels = 0) =>
    \A k \in DOMAIN obs.bulbs0 :
      obs.bulbs0[k].picked_up # << >> =>
        BulbPosition(CarriedPush(obs.bulbs0[k], players, tick), tick)
          = GhostPosition(players[obs.bulbs0[k].picked_up[1][2]], tick)

\* C19: a frame with a delivery ends Rewinding with the hard-reset flag set; from
\* then until the roster is collapsed to one fresh agent, by the hard reset of the
\* frame that reaches tick 0 or by a cancel, every frame is a rewinding one, so no
\* forward tick is simulated, the game stays Rewinding and the flag stays set;
\* a rewind that completes after a delivery is a hard reset, never an archive
C19_DeliveryForcesReset ==
  ~panicked =>
    /\ (obs.deliv > 0) => (rewind /\ clear_players)
    /\ (stats.iter.delivs > 0) => (rewind /\ clear_players)
    /\ (stats.iter.delivs > obs.deliv) => (obs.kind = "rewind" /\ Len(players) = Len(obs.pre))
    /\ (obs.kind \in {"archive", "hard"} /\ stats.last.delivs > 0) =>
         /\ obs.kind = "hard"
         /\ obs.mid = << GhostNew(level.player_start) >>
         /\ Len(players) = 1
    /\ (obs.escaped /\ obs.rewind0) => (Len(players) = 1 /\ stats.iter.delivs = obs.deliv)

\* C19 witness: the frame after a delivery made above tick REWIND_STEP is a
\* rewinding one that has not yet reached tick 0
C19_Witness ==
  /\ ~panicked /\ obs.kind = "rewind"
  /\ stats.iter.delivs > 0 /\ obs.deliv = 0 /\ obs.prevDeliv > 0
  /\ obs.tick0 > REWIND_STEP
  /\ rewind /\ clear_players /\ tick > 0

\* C20: slots_occupied never decreases; in every frame it grows by exactly the
\* number of bulbs that leave the bulb list in that frame, so it always equals
\* the number of bulbs of the level that are no longer in the list
C20_DeliveredCount ==
  /\ [](~panicked =>
          /\ slots_occupied + Len(bulbs) = Cardinality(level.bulbs)
          /\ (obs.kind \notin {"init", "panic"}) =>
               (obs.deliv >= 0 /\ obs.deliv = Len(obs.bulbs0) - Len(bulbs)))
  /\ [][ ~panicked' =>
           /\ slots_occupied' >= slots_occupied
           /\ slots_occupied' - slots_occupied = Len(bulbs) - Len(bulbs')
           /\ slots_occupied' - slots_occupied = obs'.deliv ]_vars

\* C20 witness: a frame that simulated a forward tick has delivered the bulb and
\* counted it
C20_Witness ==
  /\ ~panicked /\ obs.kind = "forward"
  /\ obs.deliv = 1 /\ slots_occupied = 1
  /\ Len(obs.bulbs0) = 1 /\ bulbs = << >>

\* C21: the bulb list never grows and never holds a bulb twice; every bulb of the
\* list after a frame was in the list before it, so a bulb that has been removed
\* (Delivered) never comes back, whether the frame archives, hard-resets or
\* cancels, and no bulb is delivered twice
C21_DeliveredIsGone ==
  /\ [](~panicked =>
          /\ \A j, k \in DOMAIN bulbs :
               bulbs[j].positions[1] = bulbs[k].positions[1] => j = k
          /\ \A k \in DOMAIN bulbs : bulbs[k].positions[1] \in BulbSpawns
          /\ slots_occupied <= Cardinality(level.bulbs))
  /\ [][ ~panicked' =>
           /\ Len(bulbs') <= Len(bulbs)
           /\ \A j \in DOMAIN bulbs' : Cardinality(SameBulb(bulbs, bulbs'[j])) = 1
           /\ (obs'.kind \in {"archive", "hard"} \/ obs'.escaped) => Len(bulbs') = Len(bulbs) ]_vars

\* C21 witness: the bulb was delivered, the hard reset that followed has run and
\* a forward tick of the new attempt has been simulated: the bulb list is empty
C21_Witness ==
  /\ ~panicked /\ obs.kind = "forward"
  /\ stats.resets >= 1 /\ stats.last.delivs >= 1 /\ obs.deliv = 0
  /\ slots_occupied = 1
  /\ bulbs = << >>
  /\ Len(players) = 1 /\ tick >= 1

\* the buttons whose connections hold the tile c
ControllersOf(c) ==
  { k \in DOMAIN buttons :
      \E n \in DOMAIN buttons[k].connections : buttons[k].connections[n] = c }

\* C22: at the end of every frame every button is active exactly when its tile is
\* a key of the frame's occupancy index, every door has at most one controlling
\* button, and a door with a controlling button is open exactly when that button
\* is active, that is when some agent is listed at the button's tile
C22_DoorFollowsButton ==
  (~panicked /\ obs.kind # "init") =>
    /\ \A k \in DOMAIN buttons : buttons[k].active <=> Occupied(buttons[k].position)
    /\ \A d \in DOMAIN doors :
         /\ Cardinality(ControllersOf(d)) <= 1
         /\ \A k \in ControllersOf(d) :
              /\ doors[d] = buttons[k].active
              /\ doors[d] <=> Occupied(buttons[k].position)

\* C22 witness: a frame has closed a door that was open, its button being left,
\* and an earlier frame had opened it
C22_Witness ==
  /\ ~panicked /\ obs.kind = "forward"
  /\ \E d \in DOMAIN doors : \E k \in ControllersOf(d) :
       /\ obs.doors0[d] /\ ~doors[d]
       /\ obs.buttons0[k].active /\ ~buttons[k].active
       /\ OccupiedBefore(buttons[k].position) /\ ~Occupied(buttons[k].position)

\* C23: in every frame that keeps the roster (neither a hard reset nor a cancel)
\* the controls log of every agent that is not the last stays equal, entry for
\* entry, over forward ticks, teleports, rewinding and the resets of an archive;
\* the last agent's log stays equal or gains exactly one entry at its end, the
\* frame's control state; an archive changes no log and adds an agent with an
\* empty log; a hard reset or a cancel leaves a single agent whose log holds
\* at most the entry of that frame
C23_LogsAreAppendOnly ==
  [][ ~panicked' =>
        IF obs'.kind = "hard" \/ obs'.escaped
        THEN /\ Len(players') = 1
             /\ Len(players'[1].controls) <= 1
             /\ \A n \in DOMAIN players'[1].controls : players'[1].controls[n] = controls'
        ELSE /\ Len(players') = Len(players) + (IF obs'.kind = "archive" THEN 1 ELSE 0)
             /\ \A i \in DOMAIN players :
                  i < Len(players) \/ obs'.kind # "forward"
                    => players'[i].controls = players[i].controls
             /\ obs'.kind = "archive" => players'[Len(players')].controls = << >>
             /\ obs'.kind = "forward" =>
                  players'[Len(players)].controls = Append(players[Len(players)].controls, controls')
             /\ obs'.kind \notin {"forward", "archive", "rewind", "paused"} => FALSE ]_vars

\* C23 witness: a forward frame with an archived agent whose log holds two
\* entries or more and whose positions were rewritten by the archive's reset,
\* while the last agent's log has entries of its own
C23_Witness ==
  /\ ~panicked /\ obs.kind = "forward"
  /\ Len(players) >= 2
  /\ Len(players[1].controls) >= 2
  /\ Len(players[1].positions) < Len(players[1].controls) + 1
  /\ Len(players[Len(players)].controls) >= 1

\* the agents the frame's occupancy index lists in the 3x3 block around a tile
Block3(tile) ==
  { i \in DOMAIN players :
      \E dx, dy \in {-1, 0, 1} :
        /\ << tile[1] + dx, tile[2] + dy >> \in DOMAIN obs.sp
        /\ \E n \in DOMAIN obs.sp[<< tile[1] + dx, tile[2] + dy >>] :
             obs.sp[<< tile[1] + dx, tile[2] + dy >>][n] = i }

\* the position Bulb::update reads for a bulb that is Free when it is resolved
FreePosition(b) ==
  BulbPosition([b EXCEPT !.positions = Append(b.positions, BulbPosition(b, tick))], tick)

\* the agents within the pickup radius, half a tile, of a position
WithinPickup(as, p) ==
  { i \in as : 4 * Dist2(p, GhostPosition(players[i], tick)) < CELL * CELL }

\* C24: in every frame, a bulb that is Free when the frame resolves it is
\* Carried after the frame exactly when some agent listed in the 3x3 block of
\* tiles around the bulb's tile is within half a tile of the bulb; the carrier
\* is then an agent of that block, no agent of the block is nearer to the
\* bulb, and the pickup tick is the current tick
C24_PickupByNearest ==
  (~panicked /\ obs.kind # "init") =>
    \A k \in DOMAIN obs.bulbs0 :
      obs.bulbs0[k].picked_up = << >> =>
        /\ Cardinality(SameBulb(bulbs, obs.bulbs0[k])) = 1
        /\ \A j \in SameBulb(bulbs, obs.bulbs0[k]) :
             \E p \in { FreePosition(obs.bulbs0[k]) } :
               \E near \in { Block3(TileOf(p)) } :
                 /\ bulbs[j].picked_up # << >> <=> WithinPickup(near, p) # {}
                 /\ bulbs[j].picked_up # << >> =>
                      /\ bulbs[j].picked_up[1][1] = tick
                      /\ bulbs[j].picked_up[1][2] \in near
                      /\ \A i \in near :
                           Dist2(p, GhostPosition(players[bulbs[j].picked_up[1][2]], tick))
                             <= Dist2(p, GhostPosition(players[i], tick))

\* C24 witness: a frame picks up a Free bulb while one agent of the 3x3 block
\* is within the radius and another agent of the block is farther away, in a
\* tile of the block other than the bulb's own
C24_Witness ==
  /\ ~panicked /\ obs.kind = "forward"
  /\ \E k \in DOMAIN obs.bulbs0 :
       /\ obs.bulbs0[k].picked_up = << >>
       /\ \E j \in SameBulb(bulbs, obs.bulbs0[k]) : bulbs[j].picked_up # << >>
       /\ \E p \in { FreePosition(obs.bulbs0[k]) } :
            /\ Cardinality(WithinPickup(Block3(TileOf(p)), p)) >= 1
            /\ \E i \in Block3(TileOf(p)) :
                 /\ i \notin WithinPickup(Block3(TileOf(p)), p)
                 /\ TileOf(GhostPosition(players[i], tick)) # TileOf(p)

\* SpecLevel: the tiles of the input row (x of tile (x, 0)), its characters
\* and its teleporter labels
InputTiles == { n - 1 : n \in DOMAIN obs.layout[1] }
InputChar(x) == obs.layout[1][x + 1]
InputLabel(x) == obs.tconn[1][x + 1]
Labelled(x) == InputLabel(x) \notin {" ", "#"}
LabelGroup(l) == { x \in InputTiles : InputLabel(x) = l }

\* the malformed inputs
UnknownTile == \E x \in InputTiles : InputChar(x) \notin TileChars
BadGroupSize == \E x \in InputTiles : Labelled(x) /\ Cardinality(LabelGroup(InputLabel(x))) # 2
LabelOffTeleporter == \E x \in InputTiles : Labelled(x) /\ InputChar(x) # "T"
UnlabelledTeleporter == \E x \in InputTiles : InputChar(x) = "T" /\ ~Labelled(x)
NoGoal == \A x \in InputTiles : InputChar(x) # "M"

\* C25: create_level returns a Level exactly when the layout has no unknown
\* tile character, every teleporter label has a group of two tiles, both of
\* them teleporter tiles, and there is a goal tile; otherwise it aborts and
\* nothing follows.  A teleporter tile without a label does not make
\* create_level abort: the Level is returned and the next step of Game::new
\* aborts on it.  The game starts for none of the malformed inputs.
C25_MalformedAbortsStartup ==
  /\ [](obs.kind # "input" =>
          /\ level.ok <=> ~(UnknownTile \/ BadGroupSize \/ LabelOffTeleporter \/ NoGoal)
          /\ ~level.ok => panicked /\ obs.kind = "created"
          /\ obs.kind = "aborted" => level.ok /\ UnlabelledTeleporter /\ panicked
          /\ obs.kind = "started" =>
               /\ ~(UnknownTile \/ BadGroupSize \/ LabelOffTeleporter \/ NoGoal)
               /\ ~UnlabelledTeleporter
               /\ ~panicked /\ Len(players) = 1
          /\ obs.kind # "started" => players = << >>)
  /\ [][ (obs.kind = "created" /\ level.ok /\ UnlabelledTeleporter)
           => obs'.kind = "aborted" ]_vars

\* C25 witness: Game::new has aborted on a Level that create_level returned,
\* with one teleporter tile unlabelled next to a connected pair
C25_Witness ==
  /\ obs.kind = "aborted" /\ panicked /\ level.ok
  /\ UnlabelledTeleporter
  /\ \E x \in InputTiles : Labelled(x) /\ level.teleporters[<< x, 0 >>] # << >>

\* C25 as stated: for each malformed input (unknown tile character, label
\* group of a size other than 2, teleporter tile left without a pair, no goal
\* tile) level construction produces no Level
C25_MalformedYieldsNoLevel ==
  (obs.kind # "input" /\ (UnknownTile \/ BadGroupSize \/ UnlabelledTeleporter \/ NoGoal))
    => ~level.ok

\* C26: in every Level returned by create_level the teleporters are the "T"
\* tiles, each with at most one pair; a teleporter has a pair exactly when its
\* tile carries a label, and the pair is then another teleporter, with the same
\* label, whose pair is the first one; a teleporter tile without a label has
\* no pair in the returned Level, and only a Level whose teleporters all have
\* a pair gets past Game::new
C26_LabelledTeleportersPaired ==
  (obs.kind # "input" /\ level.ok) =>
    /\ DOMAIN level.teleporters = { << x, 0 >> : x \in { z \in InputTiles : InputChar(z) = "T" } }
    /\ \A c \in DOMAIN level.teleporters :
         /\ Len(level.teleporters[c]) <= 1
         /\ level.teleporters[c] # << >> <=> Labelled(c[1])
         /\ \A n \in DOMAIN level.teleporters[c] :
              /\ level.teleporters[c][n] \in DOMAIN level.teleporters
              /\ level.teleporters[c][n] # c
              /\ level.teleporters[level.teleporters[c][n]] = << c >>
              /\ InputLabel(level.teleporters[c][n][1]) = InputLabel(c[1])
    /\ obs.kind = "started" =>
         \A c \in DOMAIN level.teleporters : level.teleporters[c] # << >>

\* C26 witness: the game has started on a Level with a pair of teleporters
\* that are not neighbours
C26_Witness ==
  /\ obs.kind = "started" /\ level.ok
  /\ \E c \in DOMAIN level.teleporters :
       /\ level.teleporters[c] # << >>
       /\ level.teleporters[c][1][1] > c[1] + 1

\* C26 as stated: in every Level returned by create_level every teleporter has
\* a pair, which is another teleporter whose pair is the first one
C26_EveryTeleporterPaired ==
  (obs.kind # "input" /\ level.ok) =>
    \A c \in DOMAIN level.teleporters :
      /\ level.teleporters[c] # << >>
      /\ level.teleporters[c][1] \in DOMAIN level.teleporters
      /\ level.teleporters[c][1] # c
      /\ level.teleporters[level.teleporters[c][1]] = << c >>

\* C27: in every forward frame Ghost::update leaves an agent whose log has no
\* entry at the frame's tick exactly as it was (no position appended, none
\* changed, the log untouched), and appends exactly one position to an agent
\* whose log has one
C27_UpdateWithoutEntry ==
  (~panicked /\ obs.kind = "forward") =>
    /\ DOMAIN obs.mid = DOMAIN obs.pre
    /\ \A i \in DOMAIN obs.pre :
         IF obs.tick0 >= Len(obs.pre[i].controls)
         THEN obs.mid[i] = obs.pre[i]
         ELSE /\ obs.mid[i].controls = obs.pre[i].controls
              /\ Len(obs.mid[i].positions) = Len(obs.pre[i].positions) + 1
              /\ SubSeq(obs.mid[i].positions, 1, Len(obs.pre[i].positions))
                   = obs.pre[i].positions

\* C27 witness: a forward frame updates an echo whose log, of one entry or
\* more, has run out and which stands away from the spawn, together with the
\* last agent, whose log has the entry
C27_Witness ==
  /\ ~panicked /\ obs.kind = "forward"
  /\ \E i \in DOMAIN obs.pre :
       /\ i < Len(obs.pre)
       /\ Len(obs.pre[i].controls) >= 1
       /\ obs.tick0 >= Len(obs.pre[i].controls)
       /\ Last(obs.pre[i].positions) # level.player_start
       /\ obs.mid[i] = obs.pre[i]
  /\ Len(obs.mid[Len(obs.mid)].positions) = obs.tick0 + 2

\* C28: at the end of the frame in which a rewind reaches tick 0 (archive or
\* hard reset) every button is inactive and every door connected to a button
\* is closed; and in every frame a button that was inactive before the frame
\* and is active after it has activated each teleporter connected to it, so
\* a button held up to the boundary fires again in the new iteration
C28_ButtonsReleasedAtBoundary ==
  /\ []((~panicked /\ obs.kind \in {"archive", "hard"}) =>
          /\ \A k \in DOMAIN buttons : ~buttons[k].active
          /\ \A d \in DOMAIN doors : ControllersOf(d) # {} => ~doors[d]
          /\ \A k \in DOMAIN buttons : ~Occupied(buttons[k].position))
  /\ [][ ~panicked' =>
           \A k \in DOMAIN buttons :
             (~buttons[k].active /\ buttons'[k].active) =>
               \A n \in DOMAIN buttons[k].connections :
                 buttons[k].connections[n] \in DOMAIN teleporters
                   => teleporters'[buttons[k].connections[n]] = ACTIVE_TIMER - 1 ]_vars

\* C28 witness: the first agent stood on a button with teleporters when its
\* recording pass ended; in the next iteration a forward frame finds the
\* button, inactive before the frame, occupied and activates its teleporters
C28_Witness ==
  /\ ~panicked /\ obs.kind = "forward"
  /\ stats.archives >= 1 /\ Len(players) >= 2
  /\ \E k \in DOMAIN buttons :
       /\ hist[1].rec # << >>
       /\ TileOf(Last(hist[1].rec)) = buttons[k].position
       /\ ~obs.buttons0[k].active /\ buttons[k].active
       /\ \E n \in DOMAIN buttons[k].connections :
            /\ buttons[k].connections[n] \in DOMAIN teleporters
            /\ Activated(buttons[k].connections[n])

\* C29: the carrier index of every Carried bulb is an index of the roster, in
\* every state, so that no frame aborts on players[pickup_player]; a cancel
\* while a bulb is carried by an agent other than the first is included
C29_CarrierIndexValid ==
  /\ ~panicked
  /\ \A k \in DOMAIN bulbs :
       bulbs[k].picked_up # << >> => bulbs[k].picked_up[1][2] \in DOMAIN players

\* C30: in every state the roster holds at least one agent and the positions
\* of every agent hold at least one entry, so that the last agent and the last
\* position always exist
C30_RosterNeverEmpty ==
  ~panicked =>
    /\ Len(players) >= 1
    /\ \A i \in DOMAIN players : Len(players[i].positions) >= 1
    /\ \A i \in DOMAIN obs.pre : Len(obs.pre[i].positions) >= 1
    /\ \A i \in DOMAIN obs.mid : Len(obs.mid[i].positions) >= 1
    /\ obs.kind # "init" => Len(obs.pre) >= 1 /\ Len(obs.mid) >= 1

\* C30 witness: after an archive and a later cancel the roster is one agent
\* with one position
C30_Witness ==
  /\ ~panicked /\ obs.escaped
  /\ stats.archives >= 1 /\ stats.cancels >= 1
  /\ Len(obs.pre) = 1 /\ Len(players) = 1
  /\ Len(players[1].positions) = 1

\* Level::tile of the tile of a position is Floor
OnFloor(p) == LevelTile(TileOf(p)[1], TileOf(p)[2]) = "Floor"

\* C31: the spawn and every teleporter tile of the level are tiles Level::tile
\* reports as Floor, and in every state every entry of the positions of every
\* agent, its current position included, lies in such a tile, after the update
\* loop of a frame as well as after the frame's teleports
C31_AgentsOnFloor ==
  ~panicked =>
    /\ OnFloor(level.player_start)
    /\ \A t \in DOMAIN level.teleporters : LevelTile(t[1], t[2]) = "Floor"
    /\ \A i \in DOMAIN players :
         /\ OnFloor(GhostPosition(players[i], tick))
         /\ \A n \in DOMAIN players[i].positions : OnFloor(players[i].positions[n])
    /\ \A i \in DOMAIN obs.mid :
         \A n \in DOMAIN obs.mid[i].positions : OnFloor(obs.mid[i].positions[n])

\* C31 witness: in a forward frame the last agent holds a direction whose
\* candidate tile is a Wall and stays where it was, while an echo rests on the
\* target of a teleporter that moved it in this iteration
C31_Witness ==
  /\ ~panicked /\ obs.kind = "forward"
  /\ \E g \in { obs.pre[Len(obs.pre)] } :
       /\ Dir(g.controls[obs.tick0 + 1]) # << 0, 0 >>
       /\ LevelTile(TileOf(Candidate(g, g.controls[obs.tick0 + 1]))[1],
                    TileOf(Candidate(g, g.controls[obs.tick0 + 1]))[2]) = "Wall"
       /\ Last(obs.mid[Len(obs.mid)].positions) = Last(g.positions)
  /\ \E i \in Echoes : \E c \in DOMAIN teleporters :
       /\ hist[i].taint
       /\ GhostPosition(players[i], tick) = TeleportTarget(c)

\* the tiles connected to the k-th button
ControllersTargets(k) == { buttons[k].connections[n] : n \in DOMAIN buttons[k].connections }

\* the teleporters activated in the frame that ended here at whose tile the
\* frame's occupancy index lists agent i
Senders(i) == { c \in DOMAIN teleporters : Activated(c) /\ ListedAt(i, c) }

\* C32: in every frame the resolution changes an agent only by one teleport:
\* an agent that the frame's occupancy index lists at the tile of a teleporter
\* activated in the frame ends with the last entry of its positions rewritten
\* to the target of that one teleporter, the tile paired with the one it was
\* listed at, and every other agent is left as the update loop left it; no
\* agent is moved on or back by the activation of the teleporter it arrives
\* at.  In a forward frame the rewritten entry is the agent's current position
C32_TeleportedOnce ==
  (~panicked /\ obs.kind \notin {"init", "panic"}) =>
    /\ DOMAIN players = DOMAIN obs.mid
    /\ \A i \in DOMAIN players :
         /\ Cardinality(Senders(i)) <= 1
         /\ Senders(i) = {} => players[i] = obs.mid[i]
         /\ \A c \in Senders(i) :
              /\ players[i] = GhostTeleport(obs.mid[i], TeleportTarget(c))
              /\ TileOf(TeleportTarget(c)) = level.teleporters[c][1]
              /\ obs.kind = "forward" => GhostPosition(players[i], tick) = TeleportTarget(c)

\* C32 witness: one button has activated both teleporters of a pair in a
\* forward frame; one echo was listed at each of the two tiles, and the two
\* have changed places
C32_Witness ==
  /\ ~panicked /\ obs.kind = "forward"
  /\ \E c, d \in DOMAIN teleporters : \E i, j \in Echoes :
       /\ c # d /\ i # j
       /\ level.teleporters[c] = << d >> /\ level.teleporters[d] = << c >>
       /\ \E k \in DOMAIN buttons : c \in ControllersTargets(k) /\ d \in ControllersTargets(k)
       /\ Activated(c) /\ Activated(d)
       /\ ListedAt(i, c) /\ ListedAt(j, d)
       /\ TileOf(GhostPosition(players[i], tick)) = d
       /\ TileOf(GhostPosition(players[j], tick)) = c

\* the button loop of a frame run over the buttons in the order q, from the
\* agents as the update loop left them and the index sp
ButtonsInOrder(q, ps, sp) ==
  ButtonsUpdate([players |-> ps, doors |-> doors, teleporters |-> teleporters,
                 buttons |-> [k \in DOMAIN buttons |-> buttons[q[k]]]], 1, sp)

\* C33: every door and every teleporter is a connection of at most one
\* button, and in every frame the button loop, run in any order of the
\* buttons over the state the frame resolved, gives the doors, the active
\* flag of every button, the teleporter timers and the agents' positions that
\* the frame ended with
C33_ButtonOrderIrrelevant ==
  /\ [](\A c \in DOMAIN doors \cup DOMAIN teleporters : Cardinality(ControllersOf(c)) <= 1)
  /\ [][ (~panicked' /\ obs'.kind # "panic") =>
           \A q \in Orders(DOMAIN buttons) :
             \E w \in { ButtonsInOrder(q, obs'.mid, obs'.sp) } :
               /\ w.players = players'
               /\ w.doors = doors'
               /\ \A t \in DOMAIN teleporters :
                    TeleporterUpdate(w.teleporters[t]) = teleporters'[t]
               /\ \A k \in DOMAIN buttons : w.buttons[k] = buttons'[q[k]] ]_vars

\* C33 witness: a forward frame in which two buttons go from inactive to
\* active, the door of one opens and a teleporter of the other moves an agent
C33_Witness ==
  /\ ~panicked /\ obs.kind = "forward"
  /\ \E j, k \in DOMAIN buttons :
       /\ j # k
       /\ ~obs.buttons0[j].active /\ buttons[j].active
       /\ ~obs.buttons0[k].active /\ buttons[k].active
       /\ \E d \in ControllersTargets(j) : d \in DOMAIN doors /\ doors[d] /\ ~obs.doors0[d]
       /\ \E c \in ControllersTargets(k) : \E i \in DOMAIN players :
            /\ c \in DOMAIN teleporters /\ c \in Senders(i)
            /\ players[i] # obs.mid[i]

\* C34: in every state 0 <= tick <= LOOP_TICKS, whatever the inputs; a frame
\* simulates a forward tick only from a tick below LOOP_TICKS and steps it by
\* one; and the forward frame in which tick reaches LOOP_TICKS ends Rewinding
C34_TickBounded ==
  /\ tick \in 0..LOOP_TICKS
  /\ (~panicked /\ obs.kind = "forward") =>
       /\ obs.tick0 < LOOP_TICKS
       /\ tick = obs.tick0 + 1
       /\ tick = LOOP_TICKS => rewind
  /\ (~panicked /\ tick = LOOP_TICKS) => rewind

\* C34 witness: tick has reached LOOP_TICKS, the game was Rewinding, and the
\* next frame carried a cancel: forward ticks have resumed from tick 0
C34_Witness ==
  /\ ~panicked /\ obs.kind = "forward"
  /\ obs.escaped /\ obs.rewind0
  /\ stats.frames = LOOP_TICKS + 1
  /\ obs.tick0 = 0 /\ tick = 1 /\ ~rewind

====
